---- MODULE Spec2Model ----
(***************************************************************************)
(* State-machine model of the survey-report importer of SurveySavvy        *)
(* (surveysavvy/core/pdf_import.py) and of the SQLite schema it writes to  *)
(* (surveysavvy/core/database.py).                                         *)
(*                                                                         *)
(* The database is a record of tables, each table a set of rows.  A call   *)
(* of store_pdf_data is one transaction: its statements are applied, in    *)
(* the order of the code, to a working copy of the committed database; a   *)
(* raised exception discards the working copy (conn.rollback()), the       *)
(* final conn.commit() installs it.                                        *)
(*                                                                         *)
(* TLC cannot index strings, so every text whose characters matter is      *)
(* kept as a string in the state and turned into its character sequence    *)
(* by Chars when a string operation of the code is applied to it.          *)
(***************************************************************************)
EXTENDS Integers, Sequences, FiniteSets, TLC

VARIABLES
  db,        \* the committed contents of the SQLite file at db_path
  nCalls,    \* store_pdf_data calls made so far
  last,      \* the most recent store_pdf_data call: its data, its fault, the
             \* database before it, whether it repeats the call before it
             \* (same record, that call without a fault), and its outcome
  resolved,  \* per committed import: its record and the ids it resolved
  pc,        \* process_folder: "idle", "loop", "returned" or "raised"
  pdf_files, \* process_folder's listing of the folder
  save_json, \* whether process_folder was given a save_json path
  results,   \* process_folder's summary dict (total, successful, failed, details)
  nSchema,   \* Database.create_schema runs on the file so far
  job,       \* the PDF file being imported: how far extract_survey_data,
             \* extract_info_from_pdf and process_pdf have come with it, and
             \* what each has produced
  sentiment, \* the text handed to estimate_sentiment and the scores returned
  distributionCall, \* a call of SentimentGenerator.generate_response_distribution:
             \* its sentiment category, what the random draws gave, and the
             \* dict it returned
  generator  \* the SurveyGenerator on the database: the generate_surveys runs
             \* made, the year range, and the database before the latest run

vars == <<db, nCalls, last, resolved, pc, pdf_files, save_json, results, nSchema, job, sentiment,
          distributionCall, generator>>

(***************************************************************************)
(* Bounds of the model.                                                    *)
(***************************************************************************)
MaxCalls == 3
MaxFiles == 2
MaxImports == 2
MaxSchemaRuns == 2
MaxWords == 3
MaxScores == 2

(***************************************************************************)
(* Texts.  Chars gives the characters of every text of the model's         *)
(* vocabulary: the six catalog questions, the question texts of detailed   *)
(* results, and the comments.                                              *)
(***************************************************************************)
Chars(s) ==
  CASE s = "I was engaged by the learning activities." ->
       <<"I"," ","w","a","s"," ","e","n","g","a","g","e","d"," ","b","y"," ","t","h","e"," ","l","e","a","r","n","i","n","g"," ","a","c","t","i","v","i","t","i","e","s",".">>
    [] s = "The resources provided helped me to learn." ->
       <<"T","h","e"," ","r","e","s","o","u","r","c","e","s"," ","p","r","o","v","i","d","e","d"," ","h","e","l","p","e","d"," ","m","e"," ","t","o"," ","l","e","a","r","n",".">>
    [] s = "My learning was supported." ->
       <<"M","y"," ","l","e","a","r","n","i","n","g"," ","w","a","s"," ","s","u","p","p","o","r","t","e","d",".">>
    [] s = "Assessments helped me to demonstrate my learning." ->
       <<"A","s","s","e","s","s","m","e","n","t","s"," ","h","e","l","p","e","d"," ","m","e"," ","t","o"," ","d","e","m","o","n","s","t","r","a","t","e"," ","m","y"," ","l","e","a","r","n","i","n","g",".">>
    [] s = "I knew what was expected of me." ->
       <<"I"," ","k","n","e","w"," ","w","h","a","t"," ","w","a","s"," ","e","x","p","e","c","t","e","d"," ","o","f"," ","m","e",".">>
    [] s = "Overall, this unit was a worthwhile experience." ->
       <<"O","v","e","r","a","l","l",","," ","t","h","i","s"," ","u","n","i","t"," ","w","a","s"," ","a"," ","w","o","r","t","h","w","h","i","l","e"," ","e","x","p","e","r","i","e","n","c","e",".">>
    [] s = "I was engaged by the learning activities" ->
       <<"I"," ","w","a","s"," ","e","n","g","a","g","e","d"," ","b","y"," ","t","h","e"," ","l","e","a","r","n","i","n","g"," ","a","c","t","i","v","i","t","i","e","s">>
    [] s = "The resources provided helped me to learn" ->
       <<"T","h","e"," ","r","e","s","o","u","r","c","e","s"," ","p","r","o","v","i","d","e","d"," ","h","e","l","p","e","d"," ","m","e"," ","t","o"," ","l","e","a","r","n">>
    [] s = "My learning was supported" ->
       <<"M","y"," ","l","e","a","r","n","i","n","g"," ","w","a","s"," ","s","u","p","p","o","r","t","e","d">>
    [] s = "Assessments helped me to demonstrate my learning" ->
       <<"A","s","s","e","s","s","m","e","n","t","s"," ","h","e","l","p","e","d"," ","m","e"," ","t","o"," ","d","e","m","o","n","s","t","r","a","t","e"," ","m","y"," ","l","e","a","r","n","i","n","g">>
    [] s = "I knew what was expected of me" ->
       <<"I"," ","k","n","e","w"," ","w","h","a","t"," ","w","a","s"," ","e","x","p","e","c","t","e","d"," ","o","f"," ","m","e">>
    [] s = "Overall, this unit was a worthwhile experience" ->
       <<"O","v","e","r","a","l","l",","," ","t","h","i","s"," ","u","n","i","t"," ","w","a","s"," ","a"," ","w","o","r","t","h","w","h","i","l","e"," ","e","x","p","e","r","i","e","n","c","e">>
    [] s = "Teaching quality" ->
       <<"T","e","a","c","h","i","n","g"," ","q","u","a","l","i","t","y">>
    [] s = "I really enjoyed this unit, the resources were excellent and support was good." ->
       <<"I"," ","r","e","a","l","l","y"," ","e","n","j","o","y","e","d"," ","t","h","i","s"," ","u","n","i","t",","," ","t","h","e"," ","r","e","s","o","u","r","c","e","s"," ","w","e","r","e"," ","e","x","c","e","l","l","e","n","t"," ","a","n","d"," ","s","u","p","p","o","r","t"," ","w","a","s"," ","g","o","o","d",".">>
    [] s = "I really enjoyed this unit, the resources were excellent but the workload was hard." ->
       <<"I"," ","r","e","a","l","l","y"," ","e","n","j","o","y","e","d"," ","t","h","i","s"," ","u","n","i","t",","," ","t","h","e"," ","r","e","s","o","u","r","c","e","s"," ","w","e","r","e"," ","e","x","c","e","l","l","e","n","t"," ","b","u","t"," ","t","h","e"," ","w","o","r","k","l","o","a","d"," ","w","a","s"," ","h","a","r","d",".">>
    [] s = "Good unit" ->
       <<"G","o","o","d"," ","u","n","i","t">>
    [] s = "good unit overall" ->
       <<"g","o","o","d"," ","u","n","i","t"," ","o","v","e","r","a","l","l">>
    [] s = "The lectures were confusing" ->
       <<"T","h","e"," ","l","e","c","t","u","r","e","s"," ","w","e","r","e"," ","c","o","n","f","u","s","i","n","g">>
    [] s = "engaged" ->
       <<"e","n","g","a","g","e","d">>
    [] s = "resources" ->
       <<"r","e","s","o","u","r","c","e","s">>
    [] s = "support" ->
       <<"s","u","p","p","o","r","t">>
    [] s = "assessments" ->
       <<"a","s","s","e","s","s","m","e","n","t","s">>
    [] s = "demonstrate" ->
       <<"d","e","m","o","n","s","t","r","a","t","e">>
    [] s = "expect" ->
       <<"e","x","p","e","c","t">>
    [] s = "overall" ->
       <<"o","v","e","r","a","l","l">>
    [] s = "worthwhile" ->
       <<"w","o","r","t","h","w","h","i","l","e">>
    [] s = "good" ->
       <<"g","o","o","d">>
    [] s = "great" ->
       <<"g","r","e","a","t">>
    [] s = "excellent" ->
       <<"e","x","c","e","l","l","e","n","t">>
    [] s = "helpful" ->
       <<"h","e","l","p","f","u","l">>
    [] s = "enjoy" ->
       <<"e","n","j","o","y">>
    [] s = "enjoyed" ->
       <<"e","n","j","o","y","e","d">>
    [] s = "clear" ->
       <<"c","l","e","a","r">>
    [] s = "useful" ->
       <<"u","s","e","f","u","l">>
    [] s = "valuable" ->
       <<"v","a","l","u","a","b","l","e">>
    [] s = "effective" ->
       <<"e","f","f","e","c","t","i","v","e">>
    [] s = "well" ->
       <<"w","e","l","l">>
    [] s = "love" ->
       <<"l","o","v","e">>
    [] s = "best" ->
       <<"b","e","s","t">>
    [] s = "perfect" ->
       <<"p","e","r","f","e","c","t">>
    [] s = "interesting" ->
       <<"i","n","t","e","r","e","s","t","i","n","g">>
    [] s = "engaging" ->
       <<"e","n","g","a","g","i","n","g">>
    [] s = "recommend" ->
       <<"r","e","c","o","m","m","e","n","d">>
    [] s = "supportive" ->
       <<"s","u","p","p","o","r","t","i","v","e">>
    [] s = "bad" ->
       <<"b","a","d">>
    [] s = "poor" ->
       <<"p","o","o","r">>
    [] s = "difficult" ->
       <<"d","i","f","f","i","c","u","l","t">>
    [] s = "hard" ->
       <<"h","a","r","d">>
    [] s = "confusing" ->
       <<"c","o","n","f","u","s","i","n","g">>
    [] s = "unclear" ->
       <<"u","n","c","l","e","a","r">>
    [] s = "boring" ->
       <<"b","o","r","i","n","g">>
    [] s = "useless" ->
       <<"u","s","e","l","e","s","s">>
    [] s = "waste" ->
       <<"w","a","s","t","e">>
    [] s = "ineffective" ->
       <<"i","n","e","f","f","e","c","t","i","v","e">>
    [] s = "terrible" ->
       <<"t","e","r","r","i","b","l","e">>
    [] s = "worst" ->
       <<"w","o","r","s","t">>
    [] s = "dislike" ->
       <<"d","i","s","l","i","k","e">>
    [] s = "hate" ->
       <<"h","a","t","e">>
    [] s = "awful" ->
       <<"a","w","f","u","l">>
    [] s = "frustrating" ->
       <<"f","r","u","s","t","r","a","t","i","n","g">>
    [] s = "disappointed" ->
       <<"d","i","s","a","p","p","o","i","n","t","e","d">>
    [] s = "struggle" ->
       <<"s","t","r","u","g","g","l","e">>
    [] s = "Great" ->
       <<"G","r","e","a","t">>
    [] s = "Hard" ->
       <<"H","a","r","d">>
    [] s = "unit" ->
       <<"u","n","i","t">>
    [] s = "the" ->
       <<"t","h","e">>
    [] s = "ISYS2001" ->
       <<"I","S","Y","S","2","0","0","1">>
    [] s = "Introduction to Business Programming" ->
       <<"I","n","t","r","o","d","u","c","t","i","o","n"," ","t","o"," ","B","u","s","i","n","e","s","s"," ","P","r","o","g","r","a","m","m","i","n","g">>
    [] s = "ISYS" ->
       <<"I","S","Y","S">>
    [] s = "Internal" ->
       <<"I","n","t","e","r","n","a","l">>
    [] s = "learning" ->
       <<"l","e","a","r","n","i","n","g">>
    [] s = "Overall" ->
       <<"O","v","e","r","a","l","l">>
    [] s = "COMP" ->
       <<"C","O","M","P">>
    [] s = "BUSN" ->
       <<"B","U","S","N">>
    [] s = "ACCT" ->
       <<"A","C","C","T">>
    [] s = "Semester" ->
       <<"S","e","m","e","s","t","e","r">>
    [] s = "Unit Survey Report" ->
       <<"U","n","i","t"," ","S","u","r","v","e","y"," ","R","e","p","o","r","t">>
    [] s = "- " ->
       <<"-"," ">>
    [] s = "Campus" ->
       <<"C","a","m","p","u","s">>
    [] s = "Online" ->
       <<"O","n","l","i","n","e">>
    [] s = "campus" ->
       <<"c","a","m","p","u","s">>
    [] s = "centre" ->
       <<"c","e","n","t","r","e">>
    [] s = "Trimester" ->
       <<"T","r","i","m","e","s","t","e","r">>
    [] s = "# Enrolments" ->
       <<"#"," ","E","n","r","o","l","m","e","n","t","s">>
    [] s = "(N)" ->
       <<"(","N",")">>
    [] s = "# Responses" ->
       <<"#"," ","R","e","s","p","o","n","s","e","s">>
    [] s = "Response Rate" ->
       <<"R","e","s","p","o","n","s","e"," ","R","a","t","e">>
    [] s = "Enrolments" ->
       <<"E","n","r","o","l","m","e","n","t","s">>
    [] s = "Responses" ->
       <<"R","e","s","p","o","n","s","e","s">>
    [] s = "Rate" ->
       <<"R","a","t","e">>
    [] s = "Unit" ->
       <<"U","n","i","t">>
    [] s = "School" ->
       <<"S","c","h","o","o","l">>
    [] s = "School of" ->
       <<"S","c","h","o","o","l"," ","o","f">>
    [] s = "Faculty" ->
       <<"F","a","c","u","l","t","y">>
    [] s = "Faculty of" ->
       <<"F","a","c","u","l","t","y"," ","o","f">>
    [] s = "Curtin" ->
       <<"C","u","r","t","i","n">>
    [] s = "Base (above)" ->
       <<"B","a","s","e"," ","(","a","b","o","v","e",")">>
    [] s = "1 Strongly Disagree" ->
       <<"1"," ","S","t","r","o","n","g","l","y"," ","D","i","s","a","g","r","e","e">>
    [] s = "2 Disagree" ->
       <<"2"," ","D","i","s","a","g","r","e","e">>
    [] s = "3 Neither Agree nor Disagree" ->
       <<"3"," ","N","e","i","t","h","e","r"," ","A","g","r","e","e"," ","n","o","r"," ","D","i","s","a","g","r","e","e">>
    [] s = "4 Agree" ->
       <<"4"," ","A","g","r","e","e">>
    [] s = "5 Strongly Agree" ->
       <<"5"," ","S","t","r","o","n","g","l","y"," ","A","g","r","e","e">>
    [] s = "Agreement" ->
       <<"A","g","r","e","e","m","e","n","t">>
    [] s = "What are the main reasons for your rating" ->
       <<"W","h","a","t"," ","a","r","e"," ","t","h","e"," ","m","a","i","n"," ","r","e","a","s","o","n","s"," ","f","o","r"," ","y","o","u","r"," ","r","a","t","i","n","g">>
    [] s = "Comments" ->
       <<"C","o","m","m","e","n","t","s">>
    [] s = "This report may contain" ->
       <<"T","h","i","s"," ","r","e","p","o","r","t"," ","m","a","y"," ","c","o","n","t","a","i","n">>
    [] s = "As " ->
       <<"A","s"," ">>
    [] s = "The " ->
       <<"T","h","e"," ">>
    [] s = "I " ->
       <<"I"," ">>
    [] s = "It was" ->
       <<"I","t"," ","w","a","s">>
    [] s = "Was " ->
       <<"W","a","s"," ">>
    [] s = "Fun " ->
       <<"F","u","n"," ">>
    [] s = "Good " ->
       <<"G","o","o","d"," ">>
    [] s = "best " ->
       <<"b","e","s","t"," ">>
    [] s = "engagement" ->
       <<"e","n","g","a","g","e","m","e","n","t">>
    [] s = "expectations" ->
       <<"e","x","p","e","c","t","a","t","i","o","n","s">>
    [] s = "Introduction to" ->
       <<"I","n","t","r","o","d","u","c","t","i","o","n"," ","t","o">>
    [] s = "Semester " ->
       <<"S","e","m","e","s","t","e","r"," ">>
    [] s = "Introduction to Business" ->
       <<"I","n","t","r","o","d","u","c","t","i","o","n"," ","t","o"," ","B","u","s","i","n","e","s","s">>
    [] s = "Programming" ->
       <<"P","r","o","g","r","a","m","m","i","n","g">>
    [] s = "Unit - " ->
       <<"U","n","i","t"," ","-"," ">>
    [] s = "Survey overview\n" ->
       <<"S","u","r","v","e","y"," ","o","v","e","r","v","i","e","w","\n">>
    [] s = "Unit Survey Report\nISYS2001 Introduction to Business Programming - Semester 1 2024\n- Bentley Perth Campus - Internal\n" ->
       <<"U","n","i","t"," ","S","u","r","v","e","y"," ","R","e","p","o","r","t","\n","I","S","Y","S","2","0","0","1"," ","I","n","t","r","o","d","u","c","t","i","o","n"," ","t","o"," ","B","u","s","i","n","e","s","s"," ","P","r","o","g","r","a","m","m","i","n","g"," ","-"," ","S","e","m","e","s","t","e","r"," ","1"," ","2","0","2","4","\n","-"," ","B","e","n","t","l","e","y"," ","P","e","r","t","h"," ","C","a","m","p","u","s"," ","-"," ","I","n","t","e","r","n","a","l","\n">>
    [] s = "Unit Survey Report\nCOMP1000 Data Structures - Semester 2 2024\n- Bentley Perth Campus - Online\n" ->
       <<"U","n","i","t"," ","S","u","r","v","e","y"," ","R","e","p","o","r","t","\n","C","O","M","P","1","0","0","0"," ","D","a","t","a"," ","S","t","r","u","c","t","u","r","e","s"," ","-"," ","S","e","m","e","s","t","e","r"," ","2"," ","2","0","2","4","\n","-"," ","B","e","n","t","l","e","y"," ","P","e","r","t","h"," ","C","a","m","p","u","s"," ","-"," ","O","n","l","i","n","e","\n">>
    [] s = "Unit Survey Report\nMKTG1001 Marketing Principles - Semester 1 2024\n- Bentley Perth Campus - Internal\n" ->
       <<"U","n","i","t"," ","S","u","r","v","e","y"," ","R","e","p","o","r","t","\n","M","K","T","G","1","0","0","1"," ","M","a","r","k","e","t","i","n","g"," ","P","r","i","n","c","i","p","l","e","s"," ","-"," ","S","e","m","e","s","t","e","r"," ","1"," ","2","0","2","4","\n","-"," ","B","e","n","t","l","e","y"," ","P","e","r","t","h"," ","C","a","m","p","u","s"," ","-"," ","I","n","t","e","r","n","a","l","\n">>
    [] s = "Unit Survey Report\nISYS2001 Introduction to Business Programming\n- Bentley Perth Campus - Internal\n" ->
       <<"U","n","i","t"," ","S","u","r","v","e","y"," ","R","e","p","o","r","t","\n","I","S","Y","S","2","0","0","1"," ","I","n","t","r","o","d","u","c","t","i","o","n"," ","t","o"," ","B","u","s","i","n","e","s","s"," ","P","r","o","g","r","a","m","m","i","n","g","\n","-"," ","B","e","n","t","l","e","y"," ","P","e","r","t","h"," ","C","a","m","p","u","s"," ","-"," ","I","n","t","e","r","n","a","l","\n">>
    [] s = "Unit Survey Report\n- Bentley Perth Campus - Internal\nSemester 1 2024\n" ->
       <<"U","n","i","t"," ","S","u","r","v","e","y"," ","R","e","p","o","r","t","\n","-"," ","B","e","n","t","l","e","y"," ","P","e","r","t","h"," ","C","a","m","p","u","s"," ","-"," ","I","n","t","e","r","n","a","l","\n","S","e","m","e","s","t","e","r"," ","1"," ","2","0","2","4","\n">>
    [] s = "Scanned image\n" ->
       <<"S","c","a","n","n","e","d"," ","i","m","a","g","e","\n">>
    [] s = "Unit Survey Report\nACCT1000 Accounting Basics - SEMESTER 2 2024\n- Bentley Perth Campus - Internal\n" ->
       <<"U","n","i","t"," ","S","u","r","v","e","y"," ","R","e","p","o","r","t","\n","A","C","C","T","1","0","0","0"," ","A","c","c","o","u","n","t","i","n","g"," ","B","a","s","i","c","s"," ","-"," ","S","E","M","E","S","T","E","R"," ","2"," ","2","0","2","4","\n","-"," ","B","e","n","t","l","e","y"," ","P","e","r","t","h"," ","C","a","m","p","u","s"," ","-"," ","I","n","t","e","r","n","a","l","\n">>
    [] s = "Unit Survey Report\nBUSN3000 Strategy - Semester 3 2024\n- Miri Sarawak Campus - Online\n" ->
       <<"U","n","i","t"," ","S","u","r","v","e","y"," ","R","e","p","o","r","t","\n","B","U","S","N","3","0","0","0"," ","S","t","r","a","t","e","g","y"," ","-"," ","S","e","m","e","s","t","e","r"," ","3"," ","2","0","2","4","\n","-"," ","M","i","r","i"," ","S","a","r","a","w","a","k"," ","C","a","m","p","u","s"," ","-"," ","O","n","l","i","n","e","\n">>
    [] s = "Unit Survey Report\nMGMT2000 Leading Teams - Trimester 2 2023\n- Bentley Perth Campus - Internal\n" ->
       <<"U","n","i","t"," ","S","u","r","v","e","y"," ","R","e","p","o","r","t","\n","M","G","M","T","2","0","0","0"," ","L","e","a","d","i","n","g"," ","T","e","a","m","s"," ","-"," ","T","r","i","m","e","s","t","e","r"," ","2"," ","2","0","2","3","\n","-"," ","B","e","n","t","l","e","y"," ","P","e","r","t","h"," ","C","a","m","p","u","s"," ","-"," ","I","n","t","e","r","n","a","l","\n">>
    [] s = "Unit Survey Report\nISYS1000 Introduction to Business Analytics - Semester 1 2024\n- Bentley Perth Campus - Internal\n" ->
       <<"U","n","i","t"," ","S","u","r","v","e","y"," ","R","e","p","o","r","t","\n","I","S","Y","S","1","0","0","0"," ","I","n","t","r","o","d","u","c","t","i","o","n"," ","t","o"," ","B","u","s","i","n","e","s","s"," ","A","n","a","l","y","t","i","c","s"," ","-"," ","S","e","m","e","s","t","e","r"," ","1"," ","2","0","2","4","\n","-"," ","B","e","n","t","l","e","y"," ","P","e","r","t","h"," ","C","a","m","p","u","s"," ","-"," ","I","n","t","e","r","n","a","l","\n">>
    [] s = "Unit Survey Report\nIntroduction to Business Analytics - Semester 2 2024\n- Bentley Perth Campus - Online\n" ->
       <<"U","n","i","t"," ","S","u","r","v","e","y"," ","R","e","p","o","r","t","\n","I","n","t","r","o","d","u","c","t","i","o","n"," ","t","o"," ","B","u","s","i","n","e","s","s"," ","A","n","a","l","y","t","i","c","s"," ","-"," ","S","e","m","e","s","t","e","r"," ","2"," ","2","0","2","4","\n","-"," ","B","e","n","t","l","e","y"," ","P","e","r","t","h"," ","C","a","m","p","u","s"," ","-"," ","O","n","l","i","n","e","\n">>
    [] s = "Unit Survey Report - MKTG1001 Marketing Principles\nSemester 1 2024\nKalgoorlie centre\n" ->
       <<"U","n","i","t"," ","S","u","r","v","e","y"," ","R","e","p","o","r","t"," ","-"," ","M","K","T","G","1","0","0","1"," ","M","a","r","k","e","t","i","n","g"," ","P","r","i","n","c","i","p","l","e","s","\n","S","e","m","e","s","t","e","r"," ","1"," ","2","0","2","4","\n","K","a","l","g","o","o","r","l","i","e"," ","c","e","n","t","r","e","\n">>
    [] s = "# Enrolments (N) # Responses Response Rate\n120 60 50.0\nOverall, this unit was a worthwhile experience 84.4%\n" ->
       <<"#"," ","E","n","r","o","l","m","e","n","t","s"," ","(","N",")"," ","#"," ","R","e","s","p","o","n","s","e","s"," ","R","e","s","p","o","n","s","e"," ","R","a","t","e","\n","1","2","0"," ","6","0"," ","5","0",".","0","\n","O","v","e","r","a","l","l",","," ","t","h","i","s"," ","u","n","i","t"," ","w","a","s"," ","a"," ","w","o","r","t","h","w","h","i","l","e"," ","e","x","p","e","r","i","e","n","c","e"," ","8","4",".","4","%","\n">>
    [] s = "Table unavailable\n" ->
       <<"T","a","b","l","e"," ","u","n","a","v","a","i","l","a","b","l","e","\n">>
    [] s = "Enrolments: 80\nResponses: 20\nRate: 25.0\nMy learning was supported: 75.5\n" ->
       <<"E","n","r","o","l","m","e","n","t","s",":"," ","8","0","\n","R","e","s","p","o","n","s","e","s",":"," ","2","0","\n","R","a","t","e",":"," ","2","5",".","0","\n","M","y"," ","l","e","a","r","n","i","n","g"," ","w","a","s"," ","s","u","p","p","o","r","t","e","d",":"," ","7","5",".","5","\n">>
    [] s = "# Enrolments (N) # Responses Response Rate\n45 9 20.0\nI was engaged by the learning activities 66.7%\nMy learning was supported 77.8%\n" ->
       <<"#"," ","E","n","r","o","l","m","e","n","t","s"," ","(","N",")"," ","#"," ","R","e","s","p","o","n","s","e","s"," ","R","e","s","p","o","n","s","e"," ","R","a","t","e","\n","4","5"," ","9"," ","2","0",".","0","\n","I"," ","w","a","s"," ","e","n","g","a","g","e","d"," ","b","y"," ","t","h","e"," ","l","e","a","r","n","i","n","g"," ","a","c","t","i","v","i","t","i","e","s"," ","6","6",".","7","%","\n","M","y"," ","l","e","a","r","n","i","n","g"," ","w","a","s"," ","s","u","p","p","o","r","t","e","d"," ","7","7",".","8","%","\n">>
    [] s = "Benchmarks\nUnit - ISYS2001 85.5% 120 80.2% 121 90.1% 119 70.0% 118 88.8% 117 84.4% 116\nSchool - School of Management 75.5% 900 70.2% 901 80.1% 902 60.0% 903 78.8% 904 74.4% 905\nFaculty - Faculty of Business 65.5% 2000 60.2% 2001 70.1% 2002 50.0% 2003 68.8% 2004 64.4% 2005\nCurtin 55.5% 9000 50.2% 9001 60.1% 9002 40.0% 9003 58.8% 9004 54.4% 9005\nOverall 81.5% 60 82.5% 61 83.5% 62 84.5% 63 85.5% 64 86.5% 65\n" ->
       <<"B","e","n","c","h","m","a","r","k","s","\n","U","n","i","t"," ","-"," ","I","S","Y","S","2","0","0","1"," ","8","5",".","5","%"," ","1","2","0"," ","8","0",".","2","%"," ","1","2","1"," ","9","0",".","1","%"," ","1","1","9"," ","7","0",".","0","%"," ","1","1","8"," ","8","8",".","8","%"," ","1","1","7"," ","8","4",".","4","%"," ","1","1","6","\n","S","c","h","o","o","l"," ","-"," ","S","c","h","o","o","l"," ","o","f"," ","M","a","n","a","g","e","m","e","n","t"," ","7","5",".","5","%"," ","9","0","0"," ","7","0",".","2","%"," ","9","0","1"," ","8","0",".","1","%"," ","9","0","2"," ","6","0",".","0","%"," ","9","0","3"," ","7","8",".","8","%"," ","9","0","4"," ","7","4",".","4","%"," ","9","0","5","\n","F","a","c","u","l","t","y"," ","-"," ","F","a","c","u","l","t","y"," ","o","f"," ","B","u","s","i","n","e","s","s"," ","6","5",".","5","%"," ","2","0","0","0"," ","6","0",".","2","%"," ","2","0","0","1"," ","7","0",".","1","%"," ","2","0","0","2"," ","5","0",".","0","%"," ","2","0","0","3"," ","6","8",".","8","%"," ","2","0","0","4"," ","6","4",".","4","%"," ","2","0","0","5","\n","C","u","r","t","i","n"," ","5","5",".","5","%"," ","9","0","0","0"," ","5","0",".","2","%"," ","9","0","0","1"," ","6","0",".","1","%"," ","9","0","0","2"," ","4","0",".","0","%"," ","9","0","0","3"," ","5","8",".","8","%"," ","9","0","0","4"," ","5","4",".","4","%"," ","9","0","0","5","\n","O","v","e","r","a","l","l"," ","8","1",".","5","%"," ","6","0"," ","8","2",".","5","%"," ","6","1"," ","8","3",".","5","%"," ","6","2"," ","8","4",".","5","%"," ","6","3"," ","8","5",".","5","%"," ","6","4"," ","8","6",".","5","%"," ","6","5","\n">>
    [] s = "Benchmarks\nUnit - COMP1000 85.5% 120 80.2% 121 90.1% 119 70.0% 118 88.8% 117 84.4% 116\n" ->
       <<"B","e","n","c","h","m","a","r","k","s","\n","U","n","i","t"," ","-"," ","C","O","M","P","1","0","0","0"," ","8","5",".","5","%"," ","1","2","0"," ","8","0",".","2","%"," ","1","2","1"," ","9","0",".","1","%"," ","1","1","9"," ","7","0",".","0","%"," ","1","1","8"," ","8","8",".","8","%"," ","1","1","7"," ","8","4",".","4","%"," ","1","1","6","\n">>
    [] s = "Benchmarks\nUnit - ISYS2001 85.5% 120 80.2% 121 90.1% 119 70.0% 118 88.8% 117\n" ->
       <<"B","e","n","c","h","m","a","r","k","s","\n","U","n","i","t"," ","-"," ","I","S","Y","S","2","0","0","1"," ","8","5",".","5","%"," ","1","2","0"," ","8","0",".","2","%"," ","1","2","1"," ","9","0",".","1","%"," ","1","1","9"," ","7","0",".","0","%"," ","1","1","8"," ","8","8",".","8","%"," ","1","1","7","\n">>
    [] s = "Chart unavailable\n" ->
       <<"C","h","a","r","t"," ","u","n","a","v","a","i","l","a","b","l","e","\n">>
    [] s = "Benchmarks\nSchool - School of Management 75.5% 900 70.2% 901 80.1% 902 60.0% 903 78.8% 904 74.4% 905\nCurtin 55.5% 9000 50.2% 9001 60.1% 9002 40.0% 9003 58.8% 9004 54.4% 9005\n" ->
       <<"B","e","n","c","h","m","a","r","k","s","\n","S","c","h","o","o","l"," ","-"," ","S","c","h","o","o","l"," ","o","f"," ","M","a","n","a","g","e","m","e","n","t"," ","7","5",".","5","%"," ","9","0","0"," ","7","0",".","2","%"," ","9","0","1"," ","8","0",".","1","%"," ","9","0","2"," ","6","0",".","0","%"," ","9","0","3"," ","7","8",".","8","%"," ","9","0","4"," ","7","4",".","4","%"," ","9","0","5","\n","C","u","r","t","i","n"," ","5","5",".","5","%"," ","9","0","0","0"," ","5","0",".","2","%"," ","9","0","0","1"," ","6","0",".","1","%"," ","9","0","0","2"," ","4","0",".","0","%"," ","9","0","0","3"," ","5","8",".","8","%"," ","9","0","0","4"," ","5","4",".","4","%"," ","9","0","0","5","\n">>
    [] s = "Benchmarks\nFaculty - Faculty of Business 65.5% 2000 60.2% 2001 70.1% 2002 50.0% 2003 68.8% 2004 64.4% 2005 99.9% 7\n" ->
       <<"B","e","n","c","h","m","a","r","k","s","\n","F","a","c","u","l","t","y"," ","-"," ","F","a","c","u","l","t","y"," ","o","f"," ","B","u","s","i","n","e","s","s"," ","6","5",".","5","%"," ","2","0","0","0"," ","6","0",".","2","%"," ","2","0","0","1"," ","7","0",".","1","%"," ","2","0","0","2"," ","5","0",".","0","%"," ","2","0","0","3"," ","6","8",".","8","%"," ","2","0","0","4"," ","6","4",".","4","%"," ","2","0","0","5"," ","9","9",".","9","%"," ","7","\n">>
    [] s = "I was engaged by the learning activities\n1 Strongly Disagree 1 1.7%\n2 Disagree 2 3.3%\n3 Neither Agree nor Disagree 3 5.0%\n4 Agree 24 40.0%\n5 Strongly Agree 30 50.0%\nAgreement 90.0%\nBase (above) 60\n" ->
       <<"I"," ","w","a","s"," ","e","n","g","a","g","e","d"," ","b","y"," ","t","h","e"," ","l","e","a","r","n","i","n","g"," ","a","c","t","i","v","i","t","i","e","s","\n","1"," ","S","t","r","o","n","g","l","y"," ","D","i","s","a","g","r","e","e"," ","1"," ","1",".","7","%","\n","2"," ","D","i","s","a","g","r","e","e"," ","2"," ","3",".","3","%","\n","3"," ","N","e","i","t","h","e","r"," ","A","g","r","e","e"," ","n","o","r"," ","D","i","s","a","g","r","e","e"," ","3"," ","5",".","0","%","\n","4"," ","A","g","r","e","e"," ","2","4"," ","4","0",".","0","%","\n","5"," ","S","t","r","o","n","g","l","y"," ","A","g","r","e","e"," ","3","0"," ","5","0",".","0","%","\n","A","g","r","e","e","m","e","n","t"," ","9","0",".","0","%","\n","B","a","s","e"," ","(","a","b","o","v","e",")"," ","6","0","\n">>
    [] s = "The resources provided helped me to learn\n1 Strongly Disagree 0 0.0%\n2 Disagree 5 8.3%\n4 Agree 25 41.7%\n5 Strongly Agree 30 50.0%\nBase (above) 60\n" ->
       <<"T","h","e"," ","r","e","s","o","u","r","c","e","s"," ","p","r","o","v","i","d","e","d"," ","h","e","l","p","e","d"," ","m","e"," ","t","o"," ","l","e","a","r","n","\n","1"," ","S","t","r","o","n","g","l","y"," ","D","i","s","a","g","r","e","e"," ","0"," ","0",".","0","%","\n","2"," ","D","i","s","a","g","r","e","e"," ","5"," ","8",".","3","%","\n","4"," ","A","g","r","e","e"," ","2","5"," ","4","1",".","7","%","\n","5"," ","S","t","r","o","n","g","l","y"," ","A","g","r","e","e"," ","3","0"," ","5","0",".","0","%","\n","B","a","s","e"," ","(","a","b","o","v","e",")"," ","6","0","\n">>
    [] s = "I was engaged by the learning activities\n4 Agree 10 50.0%\nAgreement 75.0%\nBase (above) 20\nMy learning was supported\n4 Agree 12 60.0%\nAgreement 80.0%\nBase (above) 20\n" ->
       <<"I"," ","w","a","s"," ","e","n","g","a","g","e","d"," ","b","y"," ","t","h","e"," ","l","e","a","r","n","i","n","g"," ","a","c","t","i","v","i","t","i","e","s","\n","4"," ","A","g","r","e","e"," ","1","0"," ","5","0",".","0","%","\n","A","g","r","e","e","m","e","n","t"," ","7","5",".","0","%","\n","B","a","s","e"," ","(","a","b","o","v","e",")"," ","2","0","\n","M","y"," ","l","e","a","r","n","i","n","g"," ","w","a","s"," ","s","u","p","p","o","r","t","e","d","\n","4"," ","A","g","r","e","e"," ","1","2"," ","6","0",".","0","%","\n","A","g","r","e","e","m","e","n","t"," ","8","0",".","0","%","\n","B","a","s","e"," ","(","a","b","o","v","e",")"," ","2","0","\n">>
    [] s = "What are the main reasons for your rating?\nComments\nThe lectures were confusing\n\nGood unit\n\nI really enjoyed this unit, the resources were excellent and support was good.\nThis report may contain confidential information\n" ->
       <<"W","h","a","t"," ","a","r","e"," ","t","h","e"," ","m","a","i","n"," ","r","e","a","s","o","n","s"," ","f","o","r"," ","y","o","u","r"," ","r","a","t","i","n","g","?","\n","C","o","m","m","e","n","t","s","\n","T","h","e"," ","l","e","c","t","u","r","e","s"," ","w","e","r","e"," ","c","o","n","f","u","s","i","n","g","\n","\n","G","o","o","d"," ","u","n","i","t","\n","\n","I"," ","r","e","a","l","l","y"," ","e","n","j","o","y","e","d"," ","t","h","i","s"," ","u","n","i","t",","," ","t","h","e"," ","r","e","s","o","u","r","c","e","s"," ","w","e","r","e"," ","e","x","c","e","l","l","e","n","t"," ","a","n","d"," ","s","u","p","p","o","r","t"," ","w","a","s"," ","g","o","o","d",".","\n","T","h","i","s"," ","r","e","p","o","r","t"," ","m","a","y"," ","c","o","n","t","a","i","n"," ","c","o","n","f","i","d","e","n","t","i","a","l"," ","i","n","f","o","r","m","a","t","i","o","n","\n">>
    [] s = "No comments\n" ->
       <<"N","o"," ","c","o","m","m","e","n","t","s","\n">>
    [] s = "What are the main reasons for your rating?\nComments\nThe lectures were confusing\nGood unit overall\nThis report may contain confidential information\n" ->
       <<"W","h","a","t"," ","a","r","e"," ","t","h","e"," ","m","a","i","n"," ","r","e","a","s","o","n","s"," ","f","o","r"," ","y","o","u","r"," ","r","a","t","i","n","g","?","\n","C","o","m","m","e","n","t","s","\n","T","h","e"," ","l","e","c","t","u","r","e","s"," ","w","e","r","e"," ","c","o","n","f","u","s","i","n","g","\n","G","o","o","d"," ","u","n","i","t"," ","o","v","e","r","a","l","l","\n","T","h","i","s"," ","r","e","p","o","r","t"," ","m","a","y"," ","c","o","n","t","a","i","n"," ","c","o","n","f","i","d","e","n","t","i","a","l"," ","i","n","f","o","r","m","a","t","i","o","n","\n">>
    [] s = "What are the main reasons for your rating?\nComments\nThis report may contain confidential information\n" ->
       <<"W","h","a","t"," ","a","r","e"," ","t","h","e"," ","m","a","i","n"," ","r","e","a","s","o","n","s"," ","f","o","r"," ","y","o","u","r"," ","r","a","t","i","n","g","?","\n","C","o","m","m","e","n","t","s","\n","T","h","i","s"," ","r","e","p","o","r","t"," ","m","a","y"," ","c","o","n","t","a","i","n"," ","c","o","n","f","i","d","e","n","t","i","a","l"," ","i","n","f","o","r","m","a","t","i","o","n","\n">>
    [] s = "Information Systems" ->
       <<"I","n","f","o","r","m","a","t","i","o","n"," ","S","y","s","t","e","m","s">>
    [] s = "Computer Science" ->
       <<"C","o","m","p","u","t","e","r"," ","S","c","i","e","n","c","e">>
    [] s = " Unit" ->
       <<" ","U","n","i","t">>
    [] s = "Unknown" ->
       <<"U","n","k","n","o","w","n">>
    [] s = "" ->
       <<>>
    [] s = "COMP1000" ->
       <<"C","O","M","P","1","0","0","0">>
    [] s = "MKTG1001" ->
       <<"M","K","T","G","1","0","0","1">>
    [] s = "ACCT1000" ->
       <<"A","C","C","T","1","0","0","0">>
    [] s = "BUSN3000" ->
       <<"B","U","S","N","3","0","0","0">>
    [] s = "MGMT2000" ->
       <<"M","G","M","T","2","0","0","0">>
    [] s = "ISYS1000" ->
       <<"I","S","Y","S","1","0","0","0">>
    [] s = "MKTG" ->
       <<"M","K","T","G">>
    [] s = "MGMT" ->
       <<"M","G","M","T">>
    [] s = "Introduction to Business Analytics" ->
       <<"I","n","t","r","o","d","u","c","t","i","o","n"," ","t","o"," ","B","u","s","i","n","e","s","s"," ","A","n","a","l","y","t","i","c","s">>
    [] s = "Marketing Principles" ->
       <<"M","a","r","k","e","t","i","n","g"," ","P","r","i","n","c","i","p","l","e","s">>
    [] s = "Leading Teams" ->
       <<"L","e","a","d","i","n","g"," ","T","e","a","m","s">>
    [] s = "ACCT Unit" ->
       <<"A","C","C","T"," ","U","n","i","t">>
    [] s = "BUSN Unit" ->
       <<"B","U","S","N"," ","U","n","i","t">>
    [] s = "MKTG Unit" ->
       <<"M","K","T","G"," ","U","n","i","t">>
    [] s = "Bentley Perth" ->
       <<"B","e","n","t","l","e","y"," ","P","e","r","t","h">>
    [] s = "Miri Sarawak" ->
       <<"M","i","r","i"," ","S","a","r","a","w","a","k">>
    [] s = "Unit - ISYS2001" ->
       <<"U","n","i","t"," ","-"," ","I","S","Y","S","2","0","0","1">>
    [] s = "Unit - COMP1000" ->
       <<"U","n","i","t"," ","-"," ","C","O","M","P","1","0","0","0">>
    [] s = "Unit - BUSN3000" ->
       <<"U","n","i","t"," ","-"," ","B","U","S","N","3","0","0","0">>
    [] s = "Unit - MKTG1001" ->
       <<"U","n","i","t"," ","-"," ","M","K","T","G","1","0","0","1">>
    [] s = "Thelectures were confusing" ->
       <<"T","h","e","l","e","c","t","u","r","e","s"," ","w","e","r","e"," ","c","o","n","f","u","s","i","n","g">>
    [] s = "Goodunit overall" ->
       <<"G","o","o","d","u","n","i","t"," ","o","v","e","r","a","l","l">>
    [] s = "Unit Survey Report\nReport for MKTG1001.\n- Bentley Perth Campus - Internal\nSemester 1 2024\n" ->
       <<"U","n","i","t"," ","S","u","r","v","e","y"," ","R","e","p","o","r","t","\n","R","e","p","o","r","t"," ","f","o","r"," ","M","K","T","G","1","0","0","1",".","\n","-"," ","B","e","n","t","l","e","y"," ","P","e","r","t","h"," ","C","a","m","p","u","s"," ","-"," ","I","n","t","e","r","n","a","l","\n","S","e","m","e","s","t","e","r"," ","1"," ","2","0","2","4","\n">>
    [] s = "Benchmarks\nUnit - ISYS2001 5.5% 120 8.2% 121 9.1% 119 7.0% 118 8.8% 117 4.4% 116\n" ->
       <<"B","e","n","c","h","m","a","r","k","s","\n","U","n","i","t"," ","-"," ","I","S","Y","S","2","0","0","1"," ","5",".","5","%"," ","1","2","0"," ","8",".","2","%"," ","1","2","1"," ","9",".","1","%"," ","1","1","9"," ","7",".","0","%"," ","1","1","8"," ","8",".","8","%"," ","1","1","7"," ","4",".","4","%"," ","1","1","6","\n">>
    [] OTHER -> <<>>

LowerChar(c) ==
  CASE c = "A" -> "a"
    [] c = "B" -> "b"
    [] c = "C" -> "c"
    [] c = "D" -> "d"
    [] c = "E" -> "e"
    [] c = "F" -> "f"
    [] c = "G" -> "g"
    [] c = "H" -> "h"
    [] c = "I" -> "i"
    [] c = "J" -> "j"
    [] c = "K" -> "k"
    [] c = "L" -> "l"
    [] c = "M" -> "m"
    [] c = "N" -> "n"
    [] c = "O" -> "o"
    [] c = "P" -> "p"
    [] c = "Q" -> "q"
    [] c = "R" -> "r"
    [] c = "S" -> "s"
    [] c = "T" -> "t"
    [] c = "U" -> "u"
    [] c = "V" -> "v"
    [] c = "W" -> "w"
    [] c = "X" -> "x"
    [] c = "Y" -> "y"
    [] c = "Z" -> "z"
    [] OTHER -> c

\* str.lower()
Lower(t) == [i \in 1..Len(t) |-> LowerChar(t[i])]

\* t[:n]
Take(t, n) == SubSeq(t, 1, IF Len(t) < n THEN Len(t) ELSE n)

\* p in t  (substring containment)
Contains(t, p) == \E i \in 0..(Len(t) - Len(p)) : SubSeq(t, i + 1, i + Len(p)) = p

\* t.endswith('.')
EndsWithPeriod(t) == Len(t) > 0 /\ t[Len(t)] = "."

\* t.split(): the maximal runs of non-blank characters
RECURSIVE SplitWords(_, _, _)
SplitWords(t, cur, acc) ==
  IF t = <<>> THEN (IF cur = <<>> THEN acc ELSE Append(acc, cur))
  ELSE IF Head(t) = " "
       THEN SplitWords(Tail(t), <<>>, IF cur = <<>> THEN acc ELSE Append(acc, cur))
       ELSE SplitWords(Tail(t), Append(cur, Head(t)), acc)

\* ' '.join(ws)
RECURSIVE JoinWords(_)
JoinWords(ws) ==
  IF ws = <<>> THEN <<>>
  ELSE IF Len(ws) = 1 THEN ws[1]
  ELSE ws[1] \o <<" ">> \o JoinWords(Tail(ws))

\* SQLite's  text LIKE pat : '%' matches any run of characters, '_' any one
\* character, every other character itself, ASCII letters without regard to case.
RECURSIVE Like(_, _)
Like(text, pat) ==
  IF pat = <<>> THEN text = <<>>
  ELSE IF Head(pat) = "%"
       THEN \E k \in 0..Len(text) : Like(SubSeq(text, k + 1, Len(text)), Tail(pat))
  ELSE IF text = <<>> THEN FALSE
  ELSE /\ (Head(pat) = "_" \/ LowerChar(Head(pat)) = LowerChar(Head(text)))
       /\ Like(Tail(text), Tail(pat))

\* the least element of a non-empty set of integers (the first row fetchone() returns)
MinOf(S) == CHOOSE x \in S : \A y \in S : x <= y

MaxOf(S) == CHOOSE x \in S : \A y \in S : y <= x

(***************************************************************************)
(* Regular expressions, as Python's re module matches them: a pattern is   *)
(* a tree of nodes, matched by backtracking from left to right.  A text    *)
(* is a sequence of characters; a match is a record of its start, the      *)
(* position after its end (pos) and its groups (caps, a start and an end   *)
(* per group, 0 when the group took no part).  The flags are "I" for       *)
(* re.IGNORECASE and "S" for re.DOTALL.                                    *)
(***************************************************************************)
\* the character classes \d, [A-Z], \s and \w
Classes ==
  [ d |-> {"0","1","2","3","4","5","6","7","8","9"},
    u |-> {"A","B","C","D","E","F","G","H","I","J","K","L","M",
           "N","O","P","Q","R","S","T","U","V","W","X","Y","Z"},
    s |-> {" ", "\n", "\t"},
    w |-> {"0","1","2","3","4","5","6","7","8","9","_",
           "A","B","C","D","E","F","G","H","I","J","K","L","M",
           "N","O","P","Q","R","S","T","U","V","W","X","Y","Z",
           "a","b","c","d","e","f","g","h","i","j","k","l","m",
           "n","o","p","q","r","s","t","u","v","w","x","y","z"} ]

NoMatch == [ ok |-> FALSE ]

\* the nodes ks, one after the other, against the text from pos on
RECURSIVE Match(_, _, _, _, _)
Match(text, ks, pos, caps, flags) ==
  IF Len(ks) = 0 THEN [ ok |-> TRUE, pos |-> pos, caps |-> caps ]
  ELSE
  LET k == Head(ks)
      \* one character against a class node: a set of characters, negated
      \* or not, or the dot
      Accepts(x, c) ==
        IF x.op = "any" THEN "S" \in flags \/ c # "\n"
        ELSE (\/ c \in x.set
              \/ "I" \in flags /\ \E e \in x.set : LowerChar(e) = LowerChar(c)) # x.neg
      \* the length of the run of characters from pos that the class accepts,
      \* at most max of them (max = -1: no limit)
      Run(x, max) ==
        LET stop == IF max = -1 \/ pos + max - 1 > Len(text) THEN Len(text) ELSE pos + max - 1
        IN IF \A j \in pos..stop : Accepts(x, text[j]) THEN stop - pos + 1
           ELSE (CHOOSE j \in pos..stop :
                   /\ ~Accepts(x, text[j])
                   /\ \A i \in pos..(j - 1) : Accepts(x, text[i])) - pos
      \* of the attempts of a repetition, one per count of characters it may
      \* take, the first whose rest of the pattern matched: the one of the
      \* least count for a lazy repetition, of the greatest for a greedy one
      Pick(attempts, lazy) ==
        IF attempts = {} THEN NoMatch
        ELSE (CHOOSE a \in attempts :
                \A b \in attempts : IF lazy THEN a.count <= b.count ELSE a.count >= b.count).m
  IN
    CASE k.op = "lit" ->
           CHOOSE found \in
             { IF /\ pos + Len(t) - 1 <= Len(text)
                  /\ \A i \in 1..Len(t) :
                       \/ text[pos + i - 1] = t[i]
                       \/ "I" \in flags /\ LowerChar(text[pos + i - 1]) = LowerChar(t[i])
               THEN Match(text, Tail(ks), pos + Len(t), caps, flags) ELSE NoMatch :
                 t \in { Chars(k.s) } } : TRUE
      [] k.op \in {"set", "any"} ->
           IF pos <= Len(text) /\ Accepts(k, text[pos])
           THEN Match(text, Tail(ks), pos + 1, caps, flags) ELSE NoMatch
      [] k.op = "cat" -> Match(text, k.xs \o Tail(ks), pos, caps, flags)
      [] k.op = "alt" ->
           IF Len(k.xs) = 0 THEN NoMatch
           ELSE LET first == Match(text, <<Head(k.xs)>> \o Tail(ks), pos, caps, flags)
                IN IF first.ok THEN first
                   ELSE Match(text, <<[k EXCEPT !.xs = Tail(@)]>> \o Tail(ks), pos, caps, flags)
      [] k.op = "rep" ->
           CHOOSE found \in
             { Pick(attempts, k.lazy) :
                 attempts \in
                   { { a \in { [ count |-> n,
                                 m |-> Match(text, Tail(ks), pos + n, caps, flags) ] :
                                 n \in k.min..Run(k.x, k.max) } :
                         a.m.ok } } } : TRUE
      [] k.op = "open" ->
           Match(text, Tail(ks), pos, [caps EXCEPT ![k.n] = <<pos, 0>>], flags)
      [] k.op = "close" ->
           Match(text, Tail(ks), pos, [caps EXCEPT ![k.n] = <<@[1], pos>>], flags)
      [] k.op = "look" ->
           IF Match(text, <<k.x>>, pos, caps, flags).ok
           THEN Match(text, Tail(ks), pos, caps, flags) ELSE NoMatch
      [] k.op = "eos" ->
           IF pos = Len(text) + 1 \/ (pos = Len(text) /\ text[pos] = "\n")
           THEN Match(text, Tail(ks), pos, caps, flags) ELSE NoMatch
      [] k.op = "bos" ->
           IF pos = 1 THEN Match(text, Tail(ks), pos, caps, flags) ELSE NoMatch
      [] k.op = "wb" ->
           IF (pos > 1 /\ text[pos - 1] \in Classes.w)
                # (pos <= Len(text) /\ text[pos] \in Classes.w)
           THEN Match(text, Tail(ks), pos, caps, flags) ELSE NoMatch

\* re.search(pattern, text[from:], flags): the leftmost match, of the
\* attempts made at every position from from on
Search(text, pattern, from, flags) ==
  LET Leftmost(attempts) ==
        IF attempts = {} THEN NoMatch
        ELSE LET Found(a) == [ ok |-> TRUE, start |-> a.start, pos |-> a.m.pos, caps |-> a.m.caps ]
             IN Found(CHOOSE a \in attempts : \A b \in attempts : a.start <= b.start)
  IN Leftmost({ a \in { [ start |-> i,
                         m |-> Match(text, <<pattern>>, i,
                                     << <<0, 0>>, <<0, 0>>, <<0, 0>> >>, flags) ] :
                         i \in from..(Len(text) + 1) } : a.m.ok })

\* match.group(n); group 0 is the whole match
Group(text, m, n) ==
  IF n = 0 THEN SubSeq(text, m.start, m.pos - 1)
  ELSE SubSeq(text, m.caps[n][1], m.caps[n][2] - 1)

\* the matches re.finditer walks through, left to right, none overlapping
RECURSIVE Matches(_, _, _, _)
Matches(text, pattern, from, flags) ==
  LET Rest(m) == IF ~m.ok THEN <<>>
                 ELSE <<m>> \o Matches(text, pattern,
                                       IF m.pos = m.start THEN m.pos + 1 ELSE m.pos, flags)
  IN Rest(Search(text, pattern, from, flags))

\* re.split(pattern, text) for the matches ms of the pattern: the pieces of
\* the text between the matches
Pieces(text, ms) ==
  [ i \in 1..(Len(ms) + 1) |->
      SubSeq(text, IF i = 1 THEN 1 ELSE ms[i - 1].pos,
                   IF i > Len(ms) THEN Len(text) ELSE ms[i].start - 1) ]

\* text.strip()
Strip(text) ==
  LET inner == { i \in 1..Len(text) : text[i] \notin Classes.s }
  IN IF inner = {} THEN <<>> ELSE SubSeq(text, MinOf(inner), MaxOf(inner))

(***************************************************************************)
(* The schema.  A database file is a record of tables; benchmark_columns   *)
(* tells which key column the file's benchmark table has ("absent" when    *)
(* the file holds no benchmark table).                                     *)
(***************************************************************************)
StandardQuestions ==
  << "I was engaged by the learning activities.",
     "The resources provided helped me to learn.",
     "My learning was supported.",
     "Assessments helped me to demonstrate my learning.",
     "I knew what was expected of me.",
     "Overall, this unit was a worthwhile experience." >>

\* a file that does not exist yet
EmptyFile ==
  [ benchmark_columns |-> "absent",
    discipline |-> {}, unit |-> {}, unit_offering |-> {}, survey_event |-> {},
    question |-> {}, unit_survey |-> {}, unit_survey_result |-> {},
    benchmark |-> {}, comment |-> {} ]

\* a file that already holds the benchmark table the importer's statements
\* are written against: benchmark(event_id, question_id, group_type,
\* group_name, percent_agree, total_n)
EventScopedFile == [EmptyFile EXCEPT !.benchmark_columns = "event_id"]

\* AUTOINCREMENT: one more than the largest id of the table
NextId(ids) == IF ids = {} THEN 1 ELSE MaxOf(ids) + 1

\* the seeding without the look at COUNT(*)
PopulateStandardQuestionsAlways(f) ==
  [f EXCEPT !.question = @ \cup
     { [question_id |-> NextId({ q.question_id : q \in f.question }) + i - 1,
        question_text |-> StandardQuestions[i]] :
         i \in 1..Len(StandardQuestions) }]

\* Database._populate_standard_questions: seeds the six questions when the
\* question table is empty
PopulateStandardQuestions(f) ==
  IF Cardinality(f.question) = 0
  THEN [f EXCEPT !.question =
          { [question_id |-> i, question_text |-> StandardQuestions[i]] :
              i \in 1..Len(StandardQuestions) }]
  ELSE f

\* Database.create_schema: CREATE TABLE IF NOT EXISTS for every table (an
\* existing benchmark table is kept as it is; a new one is keyed by
\* survey_id), then the standard questions
CreateSchema(f) ==
  PopulateStandardQuestions(
    [f EXCEPT !.benchmark_columns = IF @ = "absent" THEN "survey_id" ELSE @])

(***************************************************************************)
(* The statements of store_pdf_data, each on a working copy t of the       *)
(* database.                                                               *)
(***************************************************************************)
\* 1. INSERT OR IGNORE INTO discipline (primary key discipline_code)
InsertDiscipline(t, data) ==
  IF \E r \in t.discipline : r.discipline_code = data.discipline_code
  THEN t
  ELSE [t EXCEPT !.discipline = @ \cup
          { [discipline_code |-> data.discipline_code,
             discipline_name |-> data.discipline_name] }]

\* INSERT OR REPLACE in place of INSERT OR IGNORE
InsertOrReplaceUnit(t, data) ==
  [t EXCEPT !.unit = { r \in @ : r.unit_code # data.unit_code } \cup
      { [unit_code |-> data.unit_code, unit_name |-> data.unit_name,
         discipline_code |-> data.discipline_code] }]

\* 2. INSERT OR IGNORE INTO unit (primary key unit_code)
InsertUnit(t, data) ==
  IF \E r \in t.unit : r.unit_code = data.unit_code
  THEN t
  ELSE [t EXCEPT !.unit = @ \cup
          { [unit_code |-> data.unit_code, unit_name |-> data.unit_name,
             discipline_code |-> data.discipline_code] }]

\* the columns of UNIQUE(unit_code, semester, year, location, availability)
OfferingKey(r) == <<r.unit_code, r.semester, r.year, r.location, r.availability>>

\* a plain INSERT on a table without the UNIQUE constraint
InsertUnitOfferingNoIgnore(t, data) ==
  [t EXCEPT !.unit_offering = @ \cup
      { [unit_offering_id |-> NextId({r.unit_offering_id : r \in t.unit_offering}),
         unit_code |-> data.unit_code, semester |-> data.semester,
         year |-> data.year, location |-> data.location,
         availability |-> data.availability] }]

\* 3. INSERT OR IGNORE INTO unit_offering
InsertUnitOffering(t, data) ==
  IF \E r \in t.unit_offering : OfferingKey(r) = OfferingKey(data)
  THEN t
  ELSE [t EXCEPT !.unit_offering = @ \cup
          { [unit_offering_id |-> NextId({r.unit_offering_id : r \in t.unit_offering}),
             unit_code |-> data.unit_code, semester |-> data.semester,
             year |-> data.year, location |-> data.location,
             availability |-> data.availability] }]

\* SELECT unit_offering_id FROM unit_offering WHERE <the five columns match>
SelectUnitOffering(t, data) ==
  { r.unit_offering_id : r \in { o \in t.unit_offering : OfferingKey(o) = OfferingKey(data) } }

\* the two months the other way round
MonthSwapped(semester) == IF semester = 1 THEN 10 ELSE 5

\* month = 5 if data['semester'] == 1 else 10
Month(semester) == IF semester = 1 THEN 5 ELSE 10

\* the SELECT on the year alone
SelectSurveyEventOfYear(t, data) ==
  { e.event_id : e \in { r \in t.survey_event : r.year = data.year } }

\* SELECT event_id FROM survey_event WHERE year = ? AND month = ?
SelectSurveyEvent(t, data) ==
  { e.event_id : e \in { r \in t.survey_event :
                           r.year = data.year /\ r.month = Month(data.semester) } }

\* 4. get or create the survey event: [t, event_id]
GetOrCreateSurveyEvent(t, data) ==
  LET event_row == SelectSurveyEvent(t, data)
      new_id    == NextId({r.event_id : r \in t.survey_event})
  IN  IF event_row # {}
      THEN [t |-> t, event_id |-> MinOf(event_row)]
      ELSE [t |-> [t EXCEPT !.survey_event = @ \cup
                     { [event_id |-> new_id, month |-> Month(data.semester),
                        year |-> data.year,
                        description |-> <<"Semester", data.semester, data.year, "Survey">>] }],
            event_id |-> new_id]

\* SELECT survey_id FROM unit_survey WHERE unit_offering_id = ? AND event_id = ?
SelectUnitSurvey(t, unit_offering_id, event_id) ==
  { s.survey_id : s \in { r \in t.unit_survey :
                            r.unit_offering_id = unit_offering_id /\ r.event_id = event_id } }

\* the INSERT without the SELECT before it
CreateUnitSurvey(t, data, unit_offering_id, event_id) ==
  [ t |-> [t EXCEPT !.unit_survey = @ \cup
             { [survey_id |-> NextId({r.survey_id : r \in t.unit_survey}),
                unit_offering_id |-> unit_offering_id,
                event_id |-> event_id, enrolments |-> data.enrollments,
                responses |-> data.responses,
                response_rate |-> data.response_rate,
                overall_experience |-> data.overall_experience] }],
    survey_id |-> NextId({r.survey_id : r \in t.unit_survey}) ]

\* 5. get or create the unit survey: [t, survey_id]
GetOrCreateUnitSurvey(t, data, unit_offering_id, event_id) ==
  LET survey_row == SelectUnitSurvey(t, unit_offering_id, event_id)
      new_id     == NextId({r.survey_id : r \in t.unit_survey})
  IN  IF survey_row # {}
      THEN [t |-> t, survey_id |-> MinOf(survey_row)]
      ELSE [t |-> [t EXCEPT !.unit_survey = @ \cup
                     { [survey_id |-> new_id, unit_offering_id |-> unit_offering_id,
                        event_id |-> event_id, enrolments |-> data.enrollments,
                        responses |-> data.responses,
                        response_rate |-> data.response_rate,
                        overall_experience |-> data.overall_experience] }],
            survey_id |-> new_id]

\* 6. question_map = {row[1]: row[0] for row in cur.fetchall()}: the texts
\* of the question table, and the id a text maps to (the last row's)
QuestionTexts(t) == { q.question_text : q \in t.question }

QuestionMap(t, text) ==
  MaxOf({ q.question_id : q \in { r \in t.question : r.question_text = text } })

\* question_label_map.get(label); "" stands for None
QuestionLabelMap(label) ==
  CASE label = "Engaged"      -> StandardQuestions[1]
    [] label = "Resources"    -> StandardQuestions[2]
    [] label = "Support"      -> StandardQuestions[3]
    [] label = "Assessments"  -> StandardQuestions[4]
    [] label = "Expectations" -> StandardQuestions[5]
    [] label = "Overall"      -> StandardQuestions[6]
    [] OTHER                  -> ""

\* the benchmarks of a record that get past the question lookup
BenchmarkResolves(t, b) ==
  QuestionLabelMap(b.question_label) # ""
    /\ QuestionLabelMap(b.question_label) \in QuestionTexts(t)

\* the INSERT without the SELECT before it
InsertBenchmarkNoCheck(acc, event_id, question_id, b) ==
  [acc EXCEPT
     !.t.benchmark = @ \cup
       { [benchmark_id |-> NextId({r.benchmark_id : r \in acc.t.benchmark}),
          event_id |-> event_id, question_id |-> question_id,
          group_type |-> b.group_type, group_name |-> b.group_name,
          percent_agree |-> b.percent_agree, total_n |-> b.total_n] },
     !.added = @ + 1]

\* one benchmark row that got past the question lookup: SELECT benchmark_id
\* ... WHERE event_id = ? AND question_id = ? AND group_type = ?, then the
\* INSERT when nothing was found
InsertBenchmark(acc, event_id, question_id, b) ==
  IF \E r \in acc.t.benchmark :
        /\ r.event_id = event_id
        /\ r.question_id = question_id
        /\ r.group_type = b.group_type
  THEN acc
  ELSE [acc EXCEPT
          !.t.benchmark = @ \cup
            { [benchmark_id |-> NextId({r.benchmark_id : r \in acc.t.benchmark}),
               event_id |-> event_id, question_id |-> question_id,
               group_type |-> b.group_type, group_name |-> b.group_name,
               percent_agree |-> b.percent_agree, total_n |-> b.total_n] },
          !.added = @ + 1]

\* 7. the benchmark loop over bs, on acc = [t, added, raised].  The SELECT
\* names the column event_id: on a benchmark table without that column
\* SQLite raises "no such column".
RECURSIVE InsertBenchmarks(_, _, _)
InsertBenchmarks(acc, event_id, bs) ==
  IF bs = <<>> \/ acc.raised THEN acc
  ELSE IF ~ BenchmarkResolves(acc.t, Head(bs))
  THEN InsertBenchmarks(acc, event_id, Tail(bs))
  ELSE IF acc.t.benchmark_columns # "event_id"
  THEN [acc EXCEPT !.raised = TRUE]
  ELSE InsertBenchmarks(
         InsertBenchmark(acc, event_id,
                         QuestionMap(acc.t, QuestionLabelMap(Head(bs).question_label)),
                         Head(bs)),
         event_id, Tail(bs))

(***************************************************************************)
(* 8. Detailed results: the question lookup of a result row.               *)
(***************************************************************************)
\* question_mapping.get(question_text, question_text): the six standard
\* texts without their final period map to the texts with it
QuestionMapping(qt) ==
  IF \E i \in 1..Len(StandardQuestions) : Chars(StandardQuestions[i]) = qt \o <<".">>
  THEN qt \o <<".">>
  ELSE qt

\* fetchone()[0] of a SELECT question_id ...: the first row's id, 0 for None
FirstId(ids) == IF ids = {} THEN 0 ELSE MinOf(ids)

\* SELECT question_id FROM question WHERE question_text = ?
SelectQuestionByText(t, x) ==
  { q.question_id : q \in { r \in t.question : Chars(r.question_text) = x } }

\* SELECT question_id, question_text FROM question WHERE question_text LIKE ?
SelectQuestionLike(t, pat) ==
  { q.question_id : q \in { r \in t.question : Like(Chars(r.question_text), pat) } }

\* the exact match with the mapped text
ByExactText(t, mapped_text) == FirstId(SelectQuestionByText(t, mapped_text))

\* without the period at the end, or with one added
ByPeriod(t, mapped_text) ==
  IF EndsWithPeriod(mapped_text)
  THEN FirstId(SelectQuestionByText(t, Take(mapped_text, Len(mapped_text) - 1)))
  ELSE FirstId(SelectQuestionByText(t, mapped_text \o <<".">>))

\* exactly one row LIKE the pattern
OnlyRow(similar_rows) == IF Cardinality(similar_rows) = 1 THEN MinOf(similar_rows) ELSE 0

\* the first three words of the question text as a LIKE prefix
ByLike(t, qt) ==
  OnlyRow(SelectQuestionLike(t, JoinWords(Take(SplitWords(qt, <<>>, <<>>), 3)) \o <<"%">>))

\* the keyword chain on question_text.lower(); "" stands for None
QuestionType(lowered) ==
  IF Contains(lowered, Chars("engaged")) THEN StandardQuestions[1]
  ELSE IF Contains(lowered, Chars("resources")) THEN StandardQuestions[2]
  ELSE IF Contains(lowered, Chars("support")) THEN StandardQuestions[3]
  ELSE IF Contains(lowered, Chars("assessments")) \/ Contains(lowered, Chars("demonstrate"))
       THEN StandardQuestions[4]
  ELSE IF Contains(lowered, Chars("expect")) THEN StandardQuestions[5]
  ELSE IF Contains(lowered, Chars("overall")) \/ Contains(lowered, Chars("worthwhile"))
       THEN StandardQuestions[6]
  ELSE ""

\* all_questions[question_type] when the keyword chain names a stored text
InAllQuestions(t, question_type) ==
  IF question_type # "" /\ question_type \in QuestionTexts(t)
  THEN QuestionMap(t, question_type)
  ELSE 0

ByKeyword(t, qt) == InAllQuestions(t, QuestionType(Lower(qt)))

\* the partial-text loop over all_questions: the rows whose first twenty
\* characters occur in the question text, or that hold its first twenty
PartialMatches(t, lowered, lowered20) ==
  { r \in t.question :
      \/ Contains(lowered, Lower(Take(Chars(r.question_text), 20)))
      \/ Contains(Lower(Chars(r.question_text)), lowered20) }

\* the first such row, in the order of the table
FirstPartial(t, partial) ==
  IF partial = {} THEN 0
  ELSE QuestionMap(t, (CHOOSE r \in partial :
                         \A p \in partial : r.question_id <= p.question_id).question_text)

ByPartialText(t, qt) ==
  FirstPartial(t, PartialMatches(t, Lower(qt), Lower(Take(qt, 20))))

\* the first strategy that finds a row wins
OrElse(question_row, next) == IF question_row # 0 THEN question_row ELSE next

ResolveMapped(t, qt, mapped_text) ==
  OrElse(ByExactText(t, mapped_text),
  OrElse(ByPeriod(t, mapped_text),
  OrElse(ByLike(t, qt),
  OrElse(ByKeyword(t, qt),
         ByPartialText(t, qt)))))

ResolveChars(t, qt) == ResolveMapped(t, qt, QuestionMapping(qt))

\* the question_id a result row is attached to; 0 stands for "no question_row"
ResolveQuestion(t, question_text) == ResolveChars(t, Chars(question_text))

\* one result row whose question is question_id: skipped when unresolved or
\* when a row for (survey_id, question_id) exists.  The INSERT alone sits in
\* an inner try/except: when it raises (insert_raises) the exception is
\* caught there (errors counts them) and the row is dropped.
InsertDetailedResult(acc, survey_id, question_id, result, insert_raises) ==
  IF \/ question_id = 0
     \/ \E r \in acc.t.unit_survey_result :
           r.survey_id = survey_id /\ r.question_id = question_id
  THEN acc
  ELSE IF insert_raises
  THEN [acc EXCEPT !.errors = @ + 1]
  ELSE [acc EXCEPT
          !.t.unit_survey_result = @ \cup
            { [result_id |-> NextId({r.result_id : r \in acc.t.unit_survey_result}),
               survey_id |-> survey_id, question_id |-> question_id,
               strongly_disagree |-> result.strongly_disagree,
               disagree |-> result.disagree, neutral |-> result.neutral,
               agree |-> result.agree, strongly_agree |-> result.strongly_agree,
               unable_to_judge |-> result.unable_to_judge,
               percent_agree |-> result.percent_agree] },
          !.added = @ + 1]

\* the loop over data['detailed_results'], on acc = [t, added, errors]
RECURSIVE InsertDetailedResults(_, _, _, _)
InsertDetailedResults(acc, survey_id, rs, insert_raises) ==
  IF rs = <<>> THEN acc
  ELSE InsertDetailedResults(
         InsertDetailedResult(acc, survey_id,
                              ResolveQuestion(acc.t, Head(rs).question_text),
                              Head(rs), insert_raises),
         survey_id, Tail(rs), insert_raises)

(***************************************************************************)
(* 9. Comments.                                                            *)
(***************************************************************************)
\* comment['comment_text'][:50]
PrefixLen == 50

\* SELECT comment_id FROM comment WHERE survey_id = ? AND comment_text LIKE ?
SelectCommentLike(t, survey_id, pat) ==
  { c.comment_id : c \in { r \in t.comment :
      r.survey_id = survey_id /\ Like(Chars(r.comment_text), pat) } }

\* the pattern without the '%' at its end
SelectSimilarCommentNoWildcard(t, survey_id, comment_text) ==
  SelectCommentLike(t, survey_id, Take(Chars(comment_text), PrefixLen))

\* the pattern  comment_text[:50] + '%'
SelectSimilarComment(t, survey_id, comment_text) ==
  SelectCommentLike(t, survey_id, Take(Chars(comment_text), PrefixLen) \o <<"%">>)

\* one comment: skipped when a similar one is stored for the survey
InsertComment(acc, survey_id, comment) ==
  IF SelectSimilarComment(acc.t, survey_id, comment.comment_text) # {}
  THEN acc
  ELSE [acc EXCEPT
          !.t.comment = @ \cup
            { [comment_id |-> NextId({r.comment_id : r \in acc.t.comment}),
               survey_id |-> survey_id, comment_text |-> comment.comment_text,
               sentiment_score |-> comment.sentiment_score] },
          !.added = @ + 1]

\* the loop over data['comments'], on acc = [t, added]
RECURSIVE InsertComments(_, _, _)
InsertComments(acc, survey_id, cs) ==
  IF cs = <<>> THEN acc
  ELSE InsertComments(InsertComment(acc, survey_id, Head(cs)), survey_id, Tail(cs))

(***************************************************************************)
(* store_pdf_data as a whole: one transaction.                             *)
(*                                                                         *)
(* fault names the statement at which the database raises in this call     *)
(* ("none": nowhere); a statement raises only when the call executes it.   *)
(* The call is threaded through a frame w: the working copy t, the ids     *)
(* and counters of the locals, the working copies after every completed    *)
(* step (trace), insert_errors, the exceptions the inner except clause      *)
(* caught, and raised_at, the statement whose exception reached the outer  *)
(* except clause ("none" while running).                                   *)
(***************************************************************************)
Faults ==
  { "none", "begin", "discipline", "unit", "unit_offering", "survey_event",
    "unit_survey", "question", "benchmark", "detail_select", "detail_insert",
    "comment", "commit" }

\* a step has run to its end on working copy t
Completed(w, t) == [w EXCEPT !.t = t, !.trace = Append(@, t)]

Raise(w, statement) == [w EXCEPT !.raised_at = statement]

\* cur.execute("BEGIN TRANSACTION")
Begin(d, fault) ==
  [ t |-> d, trace |-> <<>>, raised_at |-> IF fault = "begin" THEN "begin" ELSE "none",
    unit_offering_id |-> 0, event_id |-> 0, survey_id |-> 0,
    benchmarks_added |-> 0, detailed_results_added |-> 0, comments_added |-> 0,
    insert_errors |-> 0 ]

StepDiscipline(w, data, fault) ==
  IF w.raised_at # "none" THEN w
  ELSE IF fault = "discipline" THEN Raise(w, "discipline")
  ELSE Completed(w, InsertDiscipline(w.t, data))

StepUnit(w, data, fault) ==
  IF w.raised_at # "none" THEN w
  ELSE IF fault = "unit" THEN Raise(w, "unit")
  ELSE Completed(w, InsertUnit(w.t, data))

\* unit_offering_id = cur.fetchone()[0]: a TypeError when no row came back
FetchUnitOffering(w, t, unit_offering_id) ==
  IF unit_offering_id = 0 THEN Raise(w, "unit_offering")
  ELSE Completed([w EXCEPT !.unit_offering_id = unit_offering_id], t)

AfterInsertUnitOffering(w, t, data) ==
  FetchUnitOffering(w, t, FirstId(SelectUnitOffering(t, data)))

StepUnitOffering(w, data, fault) ==
  IF w.raised_at # "none" THEN w
  ELSE IF fault = "unit_offering" THEN Raise(w, "unit_offering")
  ELSE AfterInsertUnitOffering(w, InsertUnitOffering(w.t, data), data)

WithSurveyEvent(w, ev) == Completed([w EXCEPT !.event_id = ev.event_id], ev.t)

StepSurveyEvent(w, data, fault) ==
  IF w.raised_at # "none" THEN w
  ELSE IF fault = "survey_event" THEN Raise(w, "survey_event")
  ELSE WithSurveyEvent(w, GetOrCreateSurveyEvent(w.t, data))

WithUnitSurvey(w, sv) == Completed([w EXCEPT !.survey_id = sv.survey_id], sv.t)

StepUnitSurvey(w, data, fault) ==
  IF w.raised_at # "none" THEN w
  ELSE IF fault = "unit_survey" THEN Raise(w, "unit_survey")
  ELSE WithUnitSurvey(w, GetOrCreateUnitSurvey(w.t, data, w.unit_offering_id, w.event_id))

\* cur.execute("SELECT question_id, question_text FROM question")
StepQuestion(w, data, fault) ==
  IF w.raised_at # "none" THEN w
  ELSE IF fault = "question" THEN Raise(w, "question")
  ELSE w

\* the loop ended, or a statement of the loop raised
WithBenchmarks(w, bm) ==
  IF bm.raised THEN Raise([w EXCEPT !.t = bm.t], "benchmark")
  ELSE Completed([w EXCEPT !.benchmarks_added = bm.added], bm.t)

\* the benchmarks of the record whose statements are executed
BenchmarkReached(t, bs) == \E i \in 1..Len(bs) : BenchmarkResolves(t, bs[i])

StepBenchmarks(w, data, fault) ==
  IF w.raised_at # "none" THEN w
  ELSE IF fault = "benchmark" /\ BenchmarkReached(w.t, data.benchmarks)
  THEN Raise(w, "benchmark")
  ELSE WithBenchmarks(w, InsertBenchmarks([t |-> w.t, added |-> 0, raised |-> FALSE],
                                          w.event_id, data.benchmarks))

WithDetailedResults(w, dr) ==
  Completed([w EXCEPT !.detailed_results_added = dr.added,
                      !.insert_errors = dr.errors], dr.t)

\* 'detailed_results' in data holds for every record; the SELECTs of the
\* step are outside the inner try/except
StepDetailedResults(w, data, fault) ==
  IF w.raised_at # "none" THEN w
  ELSE IF fault = "detail_select" THEN Raise(w, "detail_select")
  ELSE WithDetailedResults(w, InsertDetailedResults([t |-> w.t, added |-> 0, errors |-> 0], w.survey_id,
                                                    data.detailed_results,
                                                    fault = "detail_insert"))

WithComments(w, cm) == Completed([w EXCEPT !.comments_added = cm.added], cm.t)

StepComments(w, data, fault) ==
  IF w.raised_at # "none" THEN w
  ELSE IF fault = "comment" /\ data.comments # <<>> THEN Raise(w, "comment")
  ELSE WithComments(w, InsertComments([t |-> w.t, added |-> 0], w.survey_id, data.comments))

\* conn.commit()
Commit(w, fault) ==
  IF w.raised_at # "none" THEN w
  ELSE IF fault = "commit" THEN Raise(w, "commit")
  ELSE w

\* the unit inserted before its discipline
TransactionUnitFirst(d, data, fault) ==
  Commit(
    StepComments(
      StepDetailedResults(
        StepBenchmarks(
          StepQuestion(
            StepUnitSurvey(
              StepSurveyEvent(
                StepUnitOffering(
                  StepDiscipline(
                    StepUnit(Begin(d, fault), data, fault),
                    data, fault),
                  data, fault),
                data, fault),
              data, fault),
            data, fault),
          data, fault),
        data, fault),
      data, fault),
    fault)

\* the frame when the try block is left
Transaction(d, data, fault) ==
  Commit(
    StepComments(
      StepDetailedResults(
        StepBenchmarks(
          StepQuestion(
            StepUnitSurvey(
              StepSurveyEvent(
                StepUnitOffering(
                  StepUnit(
                    StepDiscipline(Begin(d, fault), data, fault),
                    data, fault),
                  data, fault),
                data, fault),
              data, fault),
            data, fault),
          data, fault),
        data, fault),
      data, fault),
    fault)

\* conn.commit() in place of conn.rollback(): the statements made so far
\* stay applied
RollbackMissing(d, w) == w.t

\* except Exception: conn.rollback() -- the committed database is what it was
Rollback(d, w) == d

\* the dict store_pdf_data returns
Result(w, data) ==
  IF w.raised_at = "none"
  THEN [ success |-> TRUE, unit_code |-> data.unit_code,
         semester |-> data.semester, year |-> data.year,
         benchmarks_added |-> w.benchmarks_added,
         detailed_results_added |-> w.detailed_results_added,
         comments_added |-> w.comments_added ]
  ELSE [ success |-> FALSE, message |-> <<"Database error", w.raised_at>> ]

Outcome(d, data, w) ==
  [ db |-> IF w.raised_at = "none" THEN w.t ELSE Rollback(d, w),
    result |-> Result(w, data),
    raised_at |-> w.raised_at,
    insert_errors |-> w.insert_errors,
    trace |-> w.trace,
    unit_offering_id |-> w.unit_offering_id,
    event_id |-> w.event_id,
    survey_id |-> w.survey_id ]

\* store_pdf_data(data, conn): the committed database afterwards, the
\* returned dict, and what the call did on the way
StorePdfData(d, data, fault) == Outcome(d, data, Transaction(d, data, fault))

(***************************************************************************)
(* The records handed to store_pdf_data: dicts of the shape                *)
(* extract_info_from_pdf returns.  Percentages are kept as integers.       *)
(***************************************************************************)
\* discipline_map.get(discipline_code, discipline_code)
DisciplineName(discipline_code) ==
  CASE discipline_code = "ISYS" -> "Information Systems"
    [] discipline_code = "COMP" -> "Computer Science"
    [] discipline_code = "MKTG" -> "Marketing"
    [] discipline_code = "MGMT" -> "Management"
    [] discipline_code = "ACCT" -> "Accounting"
    [] OTHER -> discipline_code

Benchmark(group_type, group_name, question_label, percent_agree, total_n) ==
  [ group_type |-> group_type, group_name |-> group_name,
    question_label |-> question_label, percent_agree |-> percent_agree,
    total_n |-> total_n ]

DetailedResult(question_text, sd, d, n, a, sa, percent_agree) ==
  [ question_text |-> question_text, strongly_disagree |-> sd, disagree |-> d,
    neutral |-> n, agree |-> a, strongly_agree |-> sa, unable_to_judge |-> 0,
    percent_agree |-> percent_agree ]

Comment(comment_text, sentiment_score) ==
  [ comment_text |-> comment_text, sentiment_score |-> sentiment_score ]

\* the sections of a report: nothing found
NoSections ==
  [ enrollments |-> 0, responses |-> 0, response_rate |-> 0,
    overall_experience |-> 0, benchmarks |-> <<>>, detailed_results |-> <<>>,
    comments |-> <<>> ]

SectionsA ==
  [ enrollments |-> 120, responses |-> 60, response_rate |-> 50,
    overall_experience |-> 85,
    benchmarks |-> << Benchmark("Overall", "Overall", "Engaged", 80, 100),
                      Benchmark("School", "School", "Engaged", 70, 500) >>,
    detailed_results |->
      << DetailedResult("I was engaged by the learning activities", 1, 2, 3, 4, 5, 60),
         DetailedResult("Teaching quality", 0, 0, 1, 1, 1, 66) >>,
    comments |->
      << Comment("I really enjoyed this unit, the resources were excellent and support was good.", 100),
         Comment("Good unit", 100) >> ]

SectionsB ==
  [ enrollments |-> 100, responses |-> 40, response_rate |-> 40,
    overall_experience |-> 70,
    benchmarks |-> << Benchmark("School", "School", "Engaged", 75, 600),
                      Benchmark("University", "Curtin", "Overall", 82, 9000) >>,
    detailed_results |->
      << DetailedResult("I was engaged by the learning activities", 2, 2, 2, 2, 2, 40),
         DetailedResult("My learning was supported", 0, 1, 1, 4, 4, 80) >>,
    comments |->
      << Comment("I really enjoyed this unit, the resources were excellent but the workload was hard.", 50),
         Comment("good unit overall", 100),
         Comment("The lectures were confusing", -100) >> ]

Data(unit_code, unit_name, discipline_code, semester, availability, sections) ==
  [ unit_code |-> unit_code, unit_name |-> unit_name,
    semester |-> semester, year |-> 2024,
    location |-> "Bentley Perth", availability |-> availability,
    discipline_code |-> discipline_code,
    discipline_name |-> DisciplineName(discipline_code),
    enrollments |-> sections.enrollments, responses |-> sections.responses,
    response_rate |-> sections.response_rate,
    overall_experience |-> sections.overall_experience,
    benchmarks |-> sections.benchmarks, comments |-> sections.comments,
    detailed_results |-> sections.detailed_results ]

\* a report with every section, and one with none
FullRecord ==
  Data("ISYS2001", "Introduction to Business Programming", "ISYS", 1, "Internal", SectionsA)

BareRecord ==
  Data("ISYS2001", "Introduction to Business Programming", "ISYS", 1, "Internal", NoSections)

\* another unit's report for the same term
OtherRecord ==
  Data("COMP1000", "Computer Science", "COMP", 1, "Internal", SectionsB)

\* a dict whose detailed results name no question: a word of a question
\* text, and a text of no question
PartialRecord ==
  Data("ISYS2001", "Introduction to Business Programming", "ISYS", 1, "Internal",
       [ NoSections EXCEPT !.detailed_results =
           << DetailedResult("learning", 0, 0, 1, 1, 1, 66),
              DetailedResult("Teaching quality", 0, 1, 1, 1, 0, 33) >> ])

\* records as extract_info_from_pdf compiles them
Records ==
  { FullRecord,
    BareRecord,
    Data("ISYS2001", "Introduction to Business Programming", "ISYS", 1, "Internal", SectionsB),
    OtherRecord,
    Data("COMP1000", "Computer Science", "COMP", 2, "Internal", SectionsA),
    Data("ISYS1000", "Information Systems", "ISYS", 1, "Internal", NoSections),
    Data("ISYS2001", "Introduction to Business Programming", "ISYS", 2, "Internal", SectionsA),
    Data("ISYS2001", "Information Systems", "ISYS", 1, "Online", SectionsB),
    Data("ISYS2001", "Introduction to Business Programming", "ISYS", 3, "Internal", NoSections) }

\* what a caller may hand to store_pdf_data: the extracted records, and a
\* dict built by hand that names the discipline differently
StoreInputs ==
  Records \cup
  { [ Data("ISYS2001", "Introduction to Business Programming", "ISYS", 2, "Internal", NoSections)
        EXCEPT !.discipline_name = "Info Systems" ] }

\* the calls of store_pdf_data: every input while the database answers
\* every statement, and the database raising at each statement in turn
\* under two reports with every section and under the one with none
StoreCalls ==
  { <<data, "none">> : data \in StoreInputs }
    \cup { <<FullRecord, fault>> : fault \in Faults }
    \cup { <<OtherRecord, fault>> : fault \in {"unit_survey", "detail_insert", "commit"} }
    \cup { <<BareRecord, fault>> : fault \in {"benchmark", "detail_insert", "comment", "commit"} }

(***************************************************************************)
(* process_pdf and process_folder.  A PDF file of the folder is            *)
(* represented by what extract_info_from_pdf returns for it: a record, or  *)
(* NoData for None.                                                        *)
(***************************************************************************)
NoData == [ unit_code |-> "" ]

\* the PDF files a folder may hold
PdfFiles == { NoData, FullRecord, BareRecord, OtherRecord }

\* what the file system and the database file do to one process_pdf call
Environments == { "ok", "json_open_raises", "connect_raises" }

\* the statements at which the database raises in a call of the batch
BatchFaults == { "none", "detail_insert", "commit" }

\* the dict process_pdf returns for the dict store_pdf_data returned
StoredResult(data, result) ==
  IF ~ result.success
  THEN [ success |-> FALSE,
         message |-> <<"Failed to store data for", data.unit_code, data.semester,
                       data.year, result.message>> ]
  ELSE [ success |-> TRUE, unit_code |-> result.unit_code,
         semester |-> result.semester, year |-> result.year,
         benchmarks |-> result.benchmarks_added,
         detailed_results_added |-> result.detailed_results_added,
         comments |-> result.comments_added ]

\* conn = sqlite3.connect(db_path); result = store_pdf_data(data, conn);
\* conn.close(); then the returned dict
ConnectAndStore(data, r) ==
  [ db |-> r.db, raised |-> FALSE, result |-> StoredResult(data, r.result) ]

\* the connections process_pdf has opened and not closed when it ends with
\* outcome r: conn = sqlite3.connect(db_path) follows the return for no data
\* and the JSON dump, and conn.close() follows store_pdf_data, which returns
\* a dict for every error of the database
ConnectionsLeftOpen(data, r) ==
  LET opened == IF data = NoData \/ r.raised THEN 0 ELSE 1
      closed == opened
  IN opened - closed

\* process_pdf turning away a record without benchmarks
ProcessPdfRequiringBenchmarks(d, data, json_requested, env, fault) ==
  IF data = NoData \/ data.benchmarks = <<>>
  THEN [ db |-> d, raised |-> FALSE,
         result |-> [ success |-> FALSE, message |-> <<"Could not extract data from PDF">> ] ]
  ELSE IF json_requested /\ env = "json_open_raises"
  THEN [ db |-> d, raised |-> TRUE, result |-> [ success |-> FALSE ] ]
  ELSE IF env = "connect_raises"
  THEN [ db |-> d, raised |-> TRUE, result |-> [ success |-> FALSE ] ]
  ELSE ConnectAndStore(data, StorePdfData(d, data, fault))

\* process_pdf(pdf_path, db_path, save_json=...) on database d: the database
\* afterwards, and either the returned dict or raised = TRUE when an
\* exception leaves the function.  Neither open(json_path, 'w') nor
\* sqlite3.connect(db_path) is inside a try block.
ProcessPdf(d, data, json_requested, env, fault) ==
  IF data = NoData
  THEN [ db |-> d, raised |-> FALSE,
         result |-> [ success |-> FALSE, message |-> <<"Could not extract data from PDF">> ] ]
  ELSE IF json_requested /\ env = "json_open_raises"
  THEN [ db |-> d, raised |-> TRUE, result |-> [ success |-> FALSE ] ]
  ELSE IF env = "connect_raises"
  THEN [ db |-> d, raised |-> TRUE, result |-> [ success |-> FALSE ] ]
  ELSE ConnectAndStore(data, StorePdfData(d, data, fault))

\* the folders: every listing of at most MaxFiles PDF files
RECURSIVE Listings(_)
Listings(n) ==
  IF n = 0 THEN { <<>> }
  ELSE Listings(n - 1) \cup
       { Append(l, f) : l \in { x \in Listings(n - 1) : Len(x) = n - 1 }, f \in PdfFiles }

(***************************************************************************)
(* estimate_sentiment.  A score is kept in hundredths, rounded down.       *)
(***************************************************************************)
positive_words ==
  << "good", "great", "excellent", "helpful", "enjoy", "enjoyed", "clear", "useful",
     "valuable", "effective", "well", "love", "best", "perfect", "interesting",
     "engaging", "engaged", "recommend", "supportive" >>

negative_words ==
  << "bad", "poor", "difficult", "hard", "confusing", "unclear", "boring", "useless",
     "waste", "ineffective", "terrible", "worst", "dislike", "hate", "awful",
     "frustrating", "disappointed", "struggle" >>

\* sum(1 for word in words if word in text_lower)
CountWords(words, text_lower) ==
  Cardinality({ i \in 1..Len(words) : Contains(text_lower, Chars(words[i])) })

\* estimate_sentiment(text)
EstimateSentiment(text) ==
  LET text_lower == Lower(text)
      positive_count == CountWords(positive_words, text_lower)
      negative_count == CountWords(negative_words, text_lower)
      total == positive_count + negative_count
  IN IF total = 0 THEN 0
     ELSE ((positive_count - negative_count) * 100) \div total

(***************************************************************************)
(* extract_survey_data and extract_info_from_pdf.  A PDF document is the   *)
(* sequence of the texts of its pages (page.get_text()).  Numbers read     *)
(* with a decimal point are kept in hundredths.                            *)
(***************************************************************************)
\* metrics: the six question texts looked for on the pages, and their keys
Metrics ==
  << [ text |-> "I was engaged by the learning activities", key |-> "engagement" ],
     [ text |-> "The resources provided helped me to learn", key |-> "resources" ],
     [ text |-> "My learning was supported", key |-> "support" ],
     [ text |-> "Assessments helped me to demonstrate my learning", key |-> "assessments" ],
     [ text |-> "I knew what was expected of me", key |-> "expectations" ],
     [ text |-> "Overall, this unit was a worthwhile experience", key |-> "overall" ] >>

\* the regular expressions of the source, each under the name of the
\* variable its match is assigned to (the texts of the model hold no en
\* dash, so the class [-–] is the hyphen)
Patterns ==
  LET Ch(S) == [ op |-> "set", set |-> S, neg |-> FALSE ]
      NotCh(S) == [ op |-> "set", set |-> S, neg |-> TRUE ]
      Dot == [ op |-> "any" ]
      Cat(xs) == [ op |-> "cat", xs |-> xs ]
      Lit(t) == [ op |-> "lit", s |-> t ]          \* the text t, as a string
      Alt(xs) == [ op |-> "alt", xs |-> xs ]
      Rep(x, min, max, lazy) == [ op |-> "rep", x |-> x, min |-> min, max |-> max, lazy |-> lazy ]
      Grp(n, x) == [ op |-> "cat", xs |-> << [ op |-> "open", n |-> n ], x, [ op |-> "close", n |-> n ] >> ]
      Look(x) == [ op |-> "look", x |-> x ]
      Eos == [ op |-> "eos" ]
      Bos == [ op |-> "bos" ]
      Wb == [ op |-> "wb" ]
      d == Ch(Classes.d)
      s == Ch(Classes.s)
      Plus(x) == Rep(x, 1, -1, FALSE)                \* x+
      Star(x) == Rep(x, 0, -1, FALSE)                 \* x*
      Lazy(x) == Rep(x, 0, -1, TRUE)                  \* x*?
      Code == Cat(<< Rep(Ch(Classes.u), 4, 4, FALSE), Plus(d) >>)           \* [A-Z]{4}\d+
      Float == Cat(<< Plus(d), Ch({"."}), Plus(d) >>)                       \* \d+\.\d+
      Dash == Cat(<< Star(s), Ch({"-"}), Star(s) >>)                          \* \s*[-–]\s*
      Count(label) ==                                 \* label\s+(\d+)\s+(\d+\.\d+)%
        Cat(<< Lit(label), Plus(s), Grp(1, Plus(d)), Plus(s), Grp(2, Float), Ch({"%"}) >>)
      Start(word) == Cat(<< Alt(<< Bos, Ch({"\n"}) >>), Lit(word) >>)       \* (?:^|\n)(?:word)
      Level(label) ==
        [ span |-> Cat(<< Grp(1, Cat(<< label, Lazy(Dot) >>)),               \* (label.*?)(?=(?:Overall|$))
                          Look(Alt(<< Lit("Overall"), Eos >>)) >>),
          line |-> Grp(1, Cat(<< label, Lazy(Dot), Ch({"\n"}) >>)) ]         \* (label.*?\n)
  IN
  [ \* (?:ISYS|COMP|BUSN|ACCT)(\d{4})
    code_match |-> Cat(<< Alt(<< Lit("ISYS"), Lit("COMP"), Lit("BUSN"), Lit("ACCT") >>),
                          Grp(1, Rep(d, 4, 4, FALSE)) >>),
    \* [A-Z]{4}\d+\s*   ^[-–]\s*   \s*[-–]\s*Semester.*$   (the three re.sub on the title)
    title_code |-> Cat(<< Code, Star(s) >>),
    title_lead |-> Cat(<< Bos, Ch({"-"}), Star(s) >>),
    title_tail |-> Cat(<< Dash, Lit("Semester"), Star(Dot), Eos >>),
    \* ([A-Z]{4}\d+)\s+(.*?)\s+-\s+Semester
    unit_match_1 |-> Cat(<< Grp(1, Code), Plus(s), Grp(2, Lazy(Dot)), Plus(s), Ch({"-"}), Plus(s),
                            Lit("Semester") >>),
    \* ([A-Z]{4}\d+)\s+(.*?)(?:\s+-\s+|\s+Semester)
    unit_match_2 |-> Cat(<< Grp(1, Code), Plus(s), Grp(2, Lazy(Dot)),
                            Alt(<< Cat(<< Plus(s), Ch({"-"}), Plus(s) >>),
                                   Cat(<< Plus(s), Lit("Semester") >>) >>) >>),
    \* Unit Survey Report\s*-\s*([A-Z]{4}\d+)\s+(.*?)(?:\n|$)
    unit_match_3 |-> Cat(<< Lit("Unit Survey Report"), Star(s), Ch({"-"}), Star(s), Grp(1, Code),
                            Plus(s), Grp(2, Lazy(Dot)), Alt(<< Ch({"\n"}), Eos >>) >>),
    \* - ([^-]+?)\s+Campus\s*[-–]\s*(Internal|Online)
    campus_mode_match |-> Cat(<< Lit("- "), Grp(1, Rep(NotCh({"-"}), 1, -1, TRUE)), Plus(s),
                                 Lit("Campus"), Dash,
                                 Grp(2, Alt(<< Lit("Internal"), Lit("Online") >>)) >>),
    \* (?:campus|centre)[-\s]*(.*?)(?:_|\s*$)
    alt_campus_match |-> Cat(<< Alt(<< Lit("campus"), Lit("centre") >>),
                                Star(Ch(Classes.s \cup {"-"})), Grp(1, Lazy(Dot)),
                                Alt(<< Ch({"_"}), Cat(<< Star(s), Eos >>) >>) >>),
    \* (Semester\s+[12]|Trimester\s+[123])\s+(\d{4})
    term_year_match |-> Cat(<< Grp(1, Alt(<< Cat(<< Lit("Semester"), Plus(s), Ch({"1", "2"}) >>),
                                             Cat(<< Lit("Trimester"), Plus(s), Ch({"1", "2", "3"}) >>) >>)),
                               Plus(s), Grp(2, Rep(d, 4, 4, FALSE)) >>),
    \* Semester\s+(\d+)\s+(\d{4})
    semester_match |-> Cat(<< Lit("Semester"), Plus(s), Grp(1, Plus(d)), Plus(s),
                              Grp(2, Rep(d, 4, 4, FALSE)) >>),
    \* # Enrolments.*?\(N\).*?# Responses.*?Response Rate\s*(\d+)\s+(\d+)\s+(\d+\.\d+)
    stats_match |-> Cat(<< Lit("# Enrolments"), Lazy(Dot), Lit("(N)"), Lazy(Dot), Lit("# Responses"),
                           Lazy(Dot), Lit("Response Rate"), Star(s), Grp(1, Plus(d)), Plus(s),
                           Grp(2, Plus(d)), Plus(s), Grp(3, Float) >>),
    \* Enrolments.*?(\d+).*?Responses.*?(\d+).*?Rate.*?(\d+\.\d+)
    alt_stats_match |-> Cat(<< Lit("Enrolments"), Lazy(Dot), Grp(1, Plus(d)), Lazy(Dot), Lit("Responses"),
                               Lazy(Dot), Grp(2, Plus(d)), Lazy(Dot), Lit("Rate"), Lazy(Dot),
                               Grp(3, Float) >>),
    \* re.escape(metric_text) + r'\s+(\d+\.\d+)%'   and   metric_text + r'.*?(\d+\.\d+)'
    metric |-> [ i \in 1..Len(Metrics) |->
                 Cat(<< Lit(Metrics[i].text), Plus(s), Grp(1, Float), Ch({"%"}) >>) ],
    alt_metric |-> [ i \in 1..Len(Metrics) |->
                     Cat(<< Lit(Metrics[i].text), Lazy(Dot), Grp(1, Float) >>) ],
    \* benchmark_levels, in the order of the dict, and for each the two
    \* searches for its text
    benchmark_levels |->
      << Level(Lit("Overall")),
         Level(Cat(<< Lit("Unit"), Dash, Code >>)),                         \* Unit\s*-\s*[A-Z]{4}\d+
         Level(Cat(<< Lit("School"), Dash, Lit("School of") >>)),           \* School\s*-\s*School of
         Level(Cat(<< Lit("Faculty"), Dash, Lit("Faculty of") >>)),         \* Faculty\s*-\s*Faculty of
         Level(Lit("Curtin")) >>,
    \* (\d+\.\d+)%   and   \b(\d{2,})\b
    percentages |-> Cat(<< Grp(1, Float), Ch({"%"}) >>),
    n_values |-> Cat(<< Wb, Grp(1, Rep(d, 2, -1, FALSE)), Wb >>),
    \* re.escape(question_text)(.*?)(?=(Base \(above\)|$))
    question_match |-> [ i \in 1..Len(Metrics) |->
                         Cat(<< Lit(Metrics[i].text), Grp(1, Lazy(Dot)),
                                Look(Grp(2, Alt(<< Lit("Base (above)"), Eos >>))) >>) ],
    \* distribution_patterns
    distribution_patterns |->
      << Count("1 Strongly Disagree"), Count("2 Disagree"), Count("3 Neither Agree nor Disagree"),
         Count("4 Agree"), Count("5 Strongly Agree") >>,
    \* Agreement\s+(\d+\.\d+)%
    agreement_match |-> Cat(<< Lit("Agreement"), Plus(s), Grp(1, Float), Ch({"%"}) >>),
    \* What are the main reasons for your rating.*?Comments\s*(.*?)(?:This report may contain|$)
    comments_match |-> Cat(<< Lit("What are the main reasons for your rating"), Lazy(Dot),
                              Lit("Comments"), Star(s), Grp(1, Lazy(Dot)),
                              Alt(<< Lit("This report may contain"), Eos >>) >>),
    \* \n\s*\n
    blank_line |-> Cat(<< Ch({"\n"}), Star(s), Ch({"\n"}) >>),
    \* combined_pattern: '|'.join(comment_starts)
    comment_starts |-> Alt(<< Start("As "), Start("The "), Start("I "), Start("Overall"),
                              Start("It was"), Start("Was "), Start("Fun "), Start("Good "),
                              Start("best ") >>),
    \* ([A-Z]{4}\d+)   and   Semester\s+(\d+)   (extract_info_from_pdf)
    backup_code |-> Grp(1, Code),
    semester |-> Cat(<< Lit("Semester"), Plus(s), Grp(1, Plus(d)) >>),
    \* '\n', the separator of page0_text.split('\n')
    newline |-> Ch({"\n"}) ]

\* re.sub(pattern, '', text): the characters of the text outside every match
Sub(text, pattern) ==
  LET Outside(ms) ==
        SelectSeq([ i \in 1..Len(text) |-> i ],
                  LAMBDA i : \A n \in 1..Len(ms) : i < ms[n].start \/ i >= ms[n].pos)
      Kept(at) == [ j \in 1..Len(at) |-> text[at[j]] ]
  IN Kept(Outside(Matches(text, pattern, 1, {})))

\* results['unit_info'] for the text of the first page: a dict, its values
\* the texts found
UnitInfo(page0_text) ==
  LET Has(words) == Contains(page0_text, words)
      Title(title_lines) ==
        Strip(Sub(Strip(Sub(Strip(Sub(Strip(title_lines[1]),
          Patterns.title_code)), Patterns.title_lead)), Patterns.title_tail))
      \* the unit code anywhere in the text, and the name of the example
      ByCode(code_match, title_lines) ==
        IF ~ code_match.ok THEN <<>>
        ELSE (IF ~ Has(Chars("Introduction to Business")) THEN <<>>
              ELSE IF Has(Chars("Programming"))
              THEN "unit_name" :> Chars("Introduction to Business Programming")
              ELSE IF Len(title_lines) > 0 THEN "unit_name" :> Title(title_lines)
              ELSE <<>>)
             @@ ("unit_code" :> Group(page0_text, code_match, 0))
      \* the standard patterns, when there is no unit code yet
      Unit(unit_match, name, by_code) ==
        ("unit_code" :> Group(page0_text, unit_match, 1)) @@ ("unit_name" :> name) @@ by_code
      ByPattern(by_code, unit_match_1, unit_match_2, unit_match_3) ==
        IF "unit_code" \in DOMAIN by_code THEN by_code
        ELSE IF unit_match_1.ok
        THEN Unit(unit_match_1, Group(page0_text, unit_match_1, 2), by_code)
        ELSE IF unit_match_2.ok
        THEN Unit(unit_match_2, Group(page0_text, unit_match_2, 2), by_code)
        ELSE IF unit_match_3.ok
        THEN Unit(unit_match_3, Strip(Group(page0_text, unit_match_3, 2)), by_code)
        ELSE by_code
      \* the hardcoded fallback of the example
      Fallback(by_pattern) ==
        IF "unit_code" \notin DOMAIN by_pattern /\ Has(Chars("Introduction to Business"))
        THEN ("unit_code" :> Chars("ISYS2001"))
               @@ ("unit_name" :> Chars("Introduction to Business Programming")) @@ by_pattern
        ELSE by_pattern
      \* campus name and mode
      Campus(unit, campus_mode_match, alt_campus_match) ==
        IF campus_mode_match.ok
        THEN ("campus_name" :> Strip(Group(page0_text, campus_mode_match, 1)))
               @@ ("mode" :> Strip(Group(page0_text, campus_mode_match, 2))) @@ unit
        ELSE IF alt_campus_match.ok
        THEN ("campus_name" :> Strip(Group(page0_text, alt_campus_match, 1)))
               @@ ("mode" :> Chars("Internal")) @@ unit
        ELSE unit
      \* term and year
      Term(campus, term_year_match, semester_match) ==
        IF term_year_match.ok
        THEN ("term" :> Strip(Group(page0_text, term_year_match, 1)))
               @@ ("year" :> Strip(Group(page0_text, term_year_match, 2))) @@ campus
        ELSE IF semester_match.ok
        THEN ("term" :> Chars("Semester ") \o Group(page0_text, semester_match, 1))
               @@ ("year" :> Group(page0_text, semester_match, 2)) @@ campus
        ELSE campus
  IN Term(Campus(Fallback(ByPattern(
            ByCode(Search(page0_text, Patterns.code_match, 1, {}),
                   SelectSeq(Pieces(page0_text, Matches(page0_text, Patterns.newline, 1, {})),
                             LAMBDA line : Contains(line, Chars("Introduction to")))),
            Search(page0_text, Patterns.unit_match_1, 1, {}),
            Search(page0_text, Patterns.unit_match_2, 1, {}),
            Search(page0_text, Patterns.unit_match_3, 1, {}))),
          Search(page0_text, Patterns.campus_mode_match, 1, {"I"}),
          Search(page0_text, Patterns.alt_campus_match, 1, {"I"})),
        Search(page0_text, Patterns.term_year_match, 1, {"I"}),
        Search(page0_text, Patterns.semester_match, 1, {}))

\* int(t) for a text of digits
ToInt(t) ==
  LET Digit(c) == CHOOSE n \in 0..9 : <<"0", "1", "2", "3", "4", "5", "6", "7", "8", "9">>[n + 1] = c
      RECURSIVE Value(_)
      Value(n) == IF n = 0 THEN 0 ELSE Value(n - 1) * 10 + Digit(t[n])
  IN Value(Len(t))

\* float(t) for digits, a point and digits: the number in hundredths
ToFloat(t) ==
  LET point == CHOOSE i \in 1..Len(t) : t[i] = "."
  IN ToInt(SubSeq(t, 1, point - 1)) * 100
       + ToInt(SubSeq(SubSeq(t, point + 1, Len(t)) \o <<"0", "0">>, 1, 2))

\* results['response_stats'] for the text of the third page
ResponseStats(page2_text) ==
  LET stats_match == Search(page2_text, Patterns.stats_match, 1, {"S"})
      alt_stats_match == Search(page2_text, Patterns.alt_stats_match, 1, {"S"})
      Stats(m) == ("enrollments" :> ToInt(Group(page2_text, m, 1)))
                    @@ ("responses" :> ToInt(Group(page2_text, m, 2)))
                    @@ ("response_rate" :> ToFloat(Group(page2_text, m, 3)))
  IN IF stats_match.ok THEN Stats(stats_match)
     ELSE IF alt_stats_match.ok THEN Stats(alt_stats_match)
     ELSE <<>>

\* results['percentage_agreement'] for the text of the third page
PercentageAgreement(page2_text) ==
  LET match == [ i \in 1..Len(Metrics) |-> Search(page2_text, Patterns.metric[i], 1, {}) ]
      alt_match == [ i \in 1..Len(Metrics) |->
                     Search(page2_text, Patterns.alt_metric[i], 1, {"S", "I"}) ]
      Found(ms) ==
        LET keys == { Metrics[i].key : i \in { j \in 1..Len(Metrics) : ms[j].ok } }
        IN [ key \in keys |->
               ToFloat(Group(page2_text, ms[CHOOSE i \in 1..Len(Metrics) : Metrics[i].key = key], 1)) ]
  IN IF \E i \in 1..Len(Metrics) : match[i].ok THEN Found(match) ELSE Found(alt_match)

\* results['benchmarks'] for the text of the fourth page: a row per level
\* with at least six percentages
Benchmarks(page3_text, unit_code) ==
  LET benchmark_categories ==
        << [ PA |-> "Engaged_PA", N |-> "Engaged_N" ],
           [ PA |-> "Resources_PA", N |-> "Resources_N" ],
           [ PA |-> "Support_PA", N |-> "Support_N" ],
           [ PA |-> "Assessments_PA", N |-> "Assessments_N" ],
           [ PA |-> "Expectations_PA", N |-> "Expectations_N" ],
           [ PA |-> "Overall_PA", N |-> "Overall_N" ] >>
      level_name == << Chars("Overall"), Chars("Unit - ") \o unit_code, Chars("School"),
                       Chars("Faculty"), Chars("Curtin") >>
      \* re.findall(pattern, level_text), for the matches ms of the pattern
      Groups(level_text, ms) == [ i \in 1..Len(ms) |-> Group(level_text, ms[i], 1) ]
      Cells(percentages, n_values) ==
        [ key \in { benchmark_categories[i].PA : i \in { j \in 1..6 : j <= Len(percentages) } }
                    \cup { benchmark_categories[i].N :
                             i \in { j \in 1..6 : j <= Len(percentages) /\ j <= Len(n_values) } } |->
            IF \E i \in 1..6 : key = benchmark_categories[i].PA
            THEN ToFloat(percentages[CHOOSE i \in 1..6 : key = benchmark_categories[i].PA])
            ELSE ToInt(n_values[CHOOSE i \in 1..6 : key = benchmark_categories[i].N]) ]
      Row(name, percentages, n_values) ==
        IF Len(percentages) >= 6
        THEN << ("Level" :> name) @@ Cells(percentages, n_values) >>
        ELSE <<>>
      \* the text of the level, if either search finds it
      LevelText(span, line) ==
        IF span.ok THEN << Group(page3_text, span, 1) >>
        ELSE IF line.ok THEN << Group(page3_text, line, 1) >>
        ELSE <<>>
      Rows(name, level_text) ==
        IF level_text = <<>> THEN <<>>
        ELSE Row(name,
                 Groups(level_text[1], Matches(level_text[1], Patterns.percentages, 1, {})),
                 Groups(level_text[1], Matches(level_text[1], Patterns.n_values, 1, {})))
      Level(i) ==
        Rows(level_name[i],
             LevelText(Search(page3_text, Patterns.benchmark_levels[i].span, 1, {"S", "I"}),
                       Search(page3_text, Patterns.benchmark_levels[i].line, 1, {"S", "I"})))
      Table(rows) == rows[1] \o rows[2] \o rows[3] \o rows[4] \o rows[5]
  IN Table([ i \in 1..5 |-> Level(i) ])

\* the dict stored in detailed_results for a question found on a page: the
\* five distributions and the agreement percentage, each searched for in
\* the text of the whole page
Distributions(page_text) ==
  LET keys == << "strongly_disagree", "disagree", "neutral", "agree", "strongly_agree" >>
      Distribution(m) ==
        IF m.ok THEN [ count |-> ToInt(Group(page_text, m, 1)),
                       percentage |-> ToFloat(Group(page_text, m, 2)) ]
        ELSE [ count |-> 0, percentage |-> 0 ]
      Dict(dist_match, agreement_match) ==
        (IF agreement_match.ok
         THEN "agreement_percentage" :> ToFloat(Group(page_text, agreement_match, 1))
         ELSE <<>>)
          @@ [ key \in { keys[i] : i \in 1..Len(keys) } |->
                 Distribution(dist_match[CHOOSE i \in 1..Len(keys) : keys[i] = key]) ]
  IN Dict([ i \in 1..Len(keys) |-> Search(page_text, Patterns.distribution_patterns[i], 1, {}) ],
          Search(page_text, Patterns.agreement_match, 1, {}))

\* results['detailed_results'] for the pages of the document: the dict as
\* the sequence of its items, in the order of insertion
DetailedResults(doc) ==
  LET \* the questions found on the page, each with the distributions of the page
      Items(questions, distributions) ==
        [ n \in 1..Len(questions) |->
            [ question_text |-> Metrics[questions[n]].text, distributions |-> distributions ] ]
      OnPage(page_text) ==
        Items(SelectSeq([ i \in 1..Len(Metrics) |-> i ],
                        LAMBDA i : /\ Contains(page_text, Chars(Metrics[i].text))
                                   /\ Search(page_text, Patterns.question_match[i], 1, {"S"}).ok),
              Distributions(page_text))
      \* detailed_results[question_text] = distributions, for each of found:
      \* a key the dict holds keeps its place, a new key goes to the end
      Store(items, found) ==
        [ i \in 1..Len(items) |->
            IF \E n \in 1..Len(found) : found[n].question_text = items[i].question_text
            THEN found[CHOOSE n \in 1..Len(found) : found[n].question_text = items[i].question_text]
            ELSE items[i] ]
          \o SelectSeq(found, LAMBDA item :
                         \A i \in 1..Len(items) : items[i].question_text # item.question_text)
      Page(items, page_idx) ==
        IF page_idx > Len(doc) THEN items ELSE Store(items, OnPage(Chars(doc[page_idx])))
  IN Page(Page(Page(<<>>, 5), 6), 7)

\* results['comments'] for the pages of the document: the paragraphs of
\* the first page, from the eighth to the tenth, that has a comments section
Comments(doc) ==
  LET \* the start word put back before its paragraph, both stripped
      Restored(comments_text, starts, by_start) ==
        (IF Strip(by_start[1]) = <<>> THEN <<>> ELSE << Strip(by_start[1]) >>)
          \o [ i \in 1..(Len(by_start) - 1) |->
                 Strip(Group(comments_text, starts[i], 0)) \o Strip(by_start[i + 1]) ]
      Split(comments_text, by_blank_line, starts) ==
        IF Len(by_blank_line) >= 3 THEN by_blank_line
        ELSE Restored(comments_text, starts, Pieces(comments_text, starts))
      Paragraphs(comments_text) ==
        Split(comments_text,
              Pieces(comments_text, Matches(comments_text, Patterns.blank_line, 1, {})),
              Matches(comments_text, Patterns.comment_starts, 1, {}))
      Spaced(stripped) ==
        [ i \in 1..Len(stripped) |-> IF stripped[i] = "\n" THEN " " ELSE stripped[i] ]
      Kept(paragraphs) ==
        SelectSeq([ i \in 1..Len(paragraphs) |-> Spaced(Strip(paragraphs[i])) ],
                  LAMBDA clean_para : clean_para # <<>> /\ ~ Contains(clean_para, Chars("Comments")))
      \* the first page with a comments section, of the matches on the pages
      Section(comments_match, found) ==
        IF found = {} THEN <<>>
        ELSE Kept(Paragraphs(Strip(Group(Chars(doc[MinOf(found)]),
                                         comments_match[MinOf(found)], 1))))
      Sections(comments_match) ==
        Section(comments_match, { page_idx \in DOMAIN comments_match : comments_match[page_idx].ok })
  IN Sections([ page_idx \in 8..(IF Len(doc) < 10 THEN Len(doc) ELSE 10) |->
                  Search(Chars(doc[page_idx]), Patterns.comments_match, 1, {"S", "I"}) ])

\* the texts of the pages of the documents (page.get_text())
Pages ==
  [ overview |->
      "Survey overview\n",
    first_canon |->
      "Unit Survey Report\nISYS2001 Introduction to Business Programming - Semester 1 2024\n- Bentley Perth Campus - Internal\n",
    first_comp |->
      "Unit Survey Report\nCOMP1000 Data Structures - Semester 2 2024\n- Bentley Perth Campus - Online\n",
    first_mktg |->
      "Unit Survey Report\nMKTG1001 Marketing Principles - Semester 1 2024\n- Bentley Perth Campus - Internal\n",
    first_noterm |->
      "Unit Survey Report\nISYS2001 Introduction to Business Programming\n- Bentley Perth Campus - Internal\n",
    first_nocode |->
      "Unit Survey Report\n- Bentley Perth Campus - Internal\nSemester 1 2024\n",
    first_blank |->
      "Scanned image\n",
    first_upper |->
      "Unit Survey Report\nACCT1000 Accounting Basics - SEMESTER 2 2024\n- Bentley Perth Campus - Internal\n",
    first_sem3 |->
      "Unit Survey Report\nBUSN3000 Strategy - Semester 3 2024\n- Miri Sarawak Campus - Online\n",
    first_tri |->
      "Unit Survey Report\nMGMT2000 Leading Teams - Trimester 2 2023\n- Bentley Perth Campus - Internal\n",
    first_analytics |->
      "Unit Survey Report\nISYS1000 Introduction to Business Analytics - Semester 1 2024\n- Bentley Perth Campus - Internal\n",
    first_uncoded |->
      "Unit Survey Report\nIntroduction to Business Analytics - Semester 2 2024\n- Bentley Perth Campus - Online\n",
    first_centre |->
      "Unit Survey Report - MKTG1001 Marketing Principles\nSemester 1 2024\nKalgoorlie centre\n",
    first_backup |->
      "Unit Survey Report\nReport for MKTG1001.\n- Bentley Perth Campus - Internal\nSemester 1 2024\n",
    stats_ok |->
      "# Enrolments (N) # Responses Response Rate\n120 60 50.0\nOverall, this unit was a worthwhile experience 84.4%\n",
    stats_bad |->
      "Table unavailable\n",
    stats_alt |->
      "Enrolments: 80\nResponses: 20\nRate: 25.0\nMy learning was supported: 75.5\n",
    stats_partial |->
      "# Enrolments (N) # Responses Response Rate\n45 9 20.0\nI was engaged by the learning activities 66.7%\nMy learning was supported 77.8%\n",
    bench_full |->
      "Benchmarks\nUnit - ISYS2001 85.5% 120 80.2% 121 90.1% 119 70.0% 118 88.8% 117 84.4% 116\nSchool - School of Management 75.5% 900 70.2% 901 80.1% 902 60.0% 903 78.8% 904 74.4% 905\nFaculty - Faculty of Business 65.5% 2000 60.2% 2001 70.1% 2002 50.0% 2003 68.8% 2004 64.4% 2005\nCurtin 55.5% 9000 50.2% 9001 60.1% 9002 40.0% 9003 58.8% 9004 54.4% 9005\nOverall 81.5% 60 82.5% 61 83.5% 62 84.5% 63 85.5% 64 86.5% 65\n",
    bench_unit |->
      "Benchmarks\nUnit - COMP1000 85.5% 120 80.2% 121 90.1% 119 70.0% 118 88.8% 117 84.4% 116\n",
    bench_five |->
      "Benchmarks\nUnit - ISYS2001 85.5% 120 80.2% 121 90.1% 119 70.0% 118 88.8% 117\n",
    bench_bad |->
      "Table unavailable\n",
    bench_school |->
      "Benchmarks\nSchool - School of Management 75.5% 900 70.2% 901 80.1% 902 60.0% 903 78.8% 904 74.4% 905\nCurtin 55.5% 9000 50.2% 9001 60.1% 9002 40.0% 9003 58.8% 9004 54.4% 9005\n",
    bench_seven |->
      "Benchmarks\nFaculty - Faculty of Business 65.5% 2000 60.2% 2001 70.1% 2002 50.0% 2003 68.8% 2004 64.4% 2005 99.9% 7\n",
    bench_low |->
      "Benchmarks\nUnit - ISYS2001 5.5% 120 8.2% 121 9.1% 119 7.0% 118 8.8% 117 4.4% 116\n",
    detail_eng |->
      "I was engaged by the learning activities\n1 Strongly Disagree 1 1.7%\n2 Disagree 2 3.3%\n3 Neither Agree nor Disagree 3 5.0%\n4 Agree 24 40.0%\n5 Strongly Agree 30 50.0%\nAgreement 90.0%\nBase (above) 60\n",
    detail_bad |->
      "Chart unavailable\n",
    detail_res |->
      "The resources provided helped me to learn\n1 Strongly Disagree 0 0.0%\n2 Disagree 5 8.3%\n4 Agree 25 41.7%\n5 Strongly Agree 30 50.0%\nBase (above) 60\n",
    detail_two |->
      "I was engaged by the learning activities\n4 Agree 10 50.0%\nAgreement 75.0%\nBase (above) 20\nMy learning was supported\n4 Agree 12 60.0%\nAgreement 80.0%\nBase (above) 20\n",
    comment_three |->
      "What are the main reasons for your rating?\nComments\nThe lectures were confusing\n\nGood unit\n\nI really enjoyed this unit, the resources were excellent and support was good.\nThis report may contain confidential information\n",
    comment_bad |->
      "No comments\n",
    comment_two |->
      "What are the main reasons for your rating?\nComments\nThe lectures were confusing\nGood unit overall\nThis report may contain confidential information\n",
    comment_none |->
      "What are the main reasons for your rating?\nComments\nThis report may contain confidential information\n" ]

\* the PDF files: fitz.open(pdf_path) for each path, a document as the
\* sequence of its pages
Documents ==
  [ canon1 |-> << Pages.first_canon >>,
    canon2 |-> << Pages.first_canon, Pages.overview >>,
    canon3 |-> << Pages.first_canon, Pages.overview, Pages.stats_ok >>,
    canon4 |-> << Pages.first_canon, Pages.overview, Pages.stats_ok, Pages.bench_full >>,
    canon5 |-> << Pages.first_canon, Pages.overview, Pages.stats_ok, Pages.bench_full,
                 Pages.detail_eng >>,
    canon7 |-> << Pages.first_canon, Pages.overview, Pages.stats_ok, Pages.bench_full,
                 Pages.detail_eng, Pages.overview, Pages.overview >>,
    canon8 |-> << Pages.first_canon, Pages.overview, Pages.stats_ok, Pages.bench_full,
                 Pages.detail_eng, Pages.overview, Pages.overview, Pages.comment_three >>,
    comp |-> << Pages.first_comp, Pages.overview, Pages.stats_ok, Pages.bench_unit >>,
    mktg |-> << Pages.first_mktg, Pages.overview, Pages.stats_ok >>,
    noterm |-> << Pages.first_noterm, Pages.overview, Pages.stats_ok >>,
    nocode |-> << Pages.first_nocode, Pages.overview, Pages.stats_ok >>,
    blank |-> << Pages.first_blank, Pages.overview, Pages.stats_ok >>,
    garbled_bench |-> << Pages.first_canon, Pages.overview, Pages.stats_ok, Pages.bench_bad >>,
    five_bench |-> << Pages.first_canon, Pages.overview, Pages.stats_ok, Pages.bench_five >>,
    garbled_all |-> << Pages.first_canon, Pages.overview, Pages.bench_bad, Pages.bench_bad,
                 Pages.detail_bad, Pages.overview, Pages.overview, Pages.comment_bad >>,
    upper |-> << Pages.first_upper, Pages.overview, Pages.stats_ok >>,
    sem3 |-> << Pages.first_sem3, Pages.overview, Pages.bench_bad, Pages.bench_unit >>,
    tri |-> << Pages.first_tri, Pages.overview, Pages.stats_ok >>,
    analytics |-> << Pages.first_analytics, Pages.overview, Pages.stats_ok >>,
    uncoded |-> << Pages.first_uncoded, Pages.overview, Pages.stats_ok >>,
    centre |-> << Pages.first_centre, Pages.overview, Pages.stats_ok >>,
    alt_stats |-> << Pages.first_canon, Pages.overview, Pages.stats_alt, Pages.bench_school >>,
    partial |-> << Pages.first_mktg, Pages.overview, Pages.stats_partial, Pages.bench_seven >>,
    details |-> << Pages.first_canon, Pages.overview, Pages.stats_ok, Pages.bench_bad,
                 Pages.detail_eng, Pages.detail_res, Pages.detail_two, Pages.comment_none >>,
    two_comments |-> << Pages.first_canon, Pages.overview, Pages.stats_ok, Pages.bench_unit,
                 Pages.detail_bad, Pages.overview, Pages.overview, Pages.overview,
                 Pages.comment_two >>,
    backup |-> << Pages.first_backup, Pages.overview, Pages.stats_ok >>,
    low_bench |-> << Pages.first_canon, Pages.overview, Pages.stats_ok, Pages.bench_low >> ]

\* extract_survey_data(pdf_path) for the document at the path: the dict
\* results; a document of fewer than three pages returns it as initialised
ExtractSurveyData(doc) ==
  LET Results(unit_info) ==
        [ unit_info |-> unit_info,
          response_stats |-> ResponseStats(Chars(doc[3])),
          percentage_agreement |-> PercentageAgreement(Chars(doc[3])),
          benchmarks |->
            IF Len(doc) > 3
            THEN Benchmarks(Chars(doc[4]),
                            IF "unit_code" \in DOMAIN unit_info THEN unit_info.unit_code ELSE <<>>)
            ELSE <<>>,
          detailed_results |-> DetailedResults(doc),
          comments |-> Comments(doc) ]
  IN IF Len(doc) < 3
     THEN [ unit_info |-> <<>>, response_stats |-> <<>>, percentage_agreement |-> <<>>,
            benchmarks |-> <<>>, detailed_results |-> <<>>, comments |-> <<>> ]
     ELSE Results(UnitInfo(Chars(doc[1])))

\* the document handles extract_survey_data(pdf_path) has opened and not
\* closed when it returns: doc = fitz.open(pdf_path) is closed by doc.close()
\* at the end of the sections, which the return for a document of fewer than
\* three pages does not reach
DocumentsLeftOpen(doc) ==
  LET opened == 1
      closed == IF Len(doc) < 3 THEN 0 ELSE 1
  IN opened - closed

\* the texts extraction hands to the database, each the string of its
\* characters
Texts ==
  { "", "ISYS2001", "COMP1000", "MKTG1001", "ACCT1000", "BUSN3000", "MGMT2000", "ISYS1000",
    "ISYS", "COMP", "MKTG", "ACCT", "BUSN", "MGMT",
    "Introduction to Business Programming", "Introduction to Business Analytics",
    "Marketing Principles", "Leading Teams", "Information Systems", "Computer Science",
    "ACCT Unit", "BUSN Unit", "MKTG Unit",
    "Bentley Perth", "Miri Sarawak", "Unknown", "Internal", "Online",
    "Overall", "Unit - ISYS2001", "Unit - COMP1000", "Unit - BUSN3000", "Unit - MKTG1001",
    "School", "Faculty", "Curtin",
    "The lectures were confusing", "Good unit",
    "I really enjoyed this unit, the resources were excellent and support was good.",
    "Thelectures were confusing", "Goodunit overall" }

\* the string of a text
Str(t) == CHOOSE s \in Texts : Chars(s) = t

\* extract_info_from_pdf(pdf_path), from the dict raw_data that
\* extract_survey_data returned for the document: the compiled record, or
\* NoData for None
ExtractInfoFromPdf(raw_data, doc) ==
  LET Get(dict, key, default) == IF key \in DOMAIN dict THEN dict[key] ELSE default
      \* the second look at the first page, when there is no unit code
      Coded(info, page0_text, code_match) ==
        IF code_match.ok THEN ("unit_code" :> Group(page0_text, code_match, 0)) @@ info
        ELSE IF Contains(page0_text, Chars("Introduction to Business"))
        THEN ("unit_code" :> Chars("ISYS2001")) @@ info
        ELSE info
      Titled(coded, title_lines) ==
        IF "unit_name" \notin DOMAIN coded /\ Len(title_lines) > 0
        THEN ("unit_name" :> Strip(Sub(Strip(title_lines[1]), Patterns.title_code))) @@ coded
        ELSE coded
      Backup(info, page0_text) ==
        Titled(Coded(info, page0_text, Search(page0_text, Patterns.backup_code, 1, {})),
               SelectSeq(Pieces(page0_text, Matches(page0_text, Patterns.newline, 1, {})),
                         LAMBDA line : Contains(line, Chars("Introduction to"))))
      UnitInfoOf(info) ==
        IF info # <<>> /\ "unit_code" \notin DOMAIN info
        THEN Backup(info, IF Len(doc) > 0 THEN Chars(doc[1]) ELSE <<>>)
        ELSE info
      \* the fields of the record
      UnitName(unit_info, discipline) ==
        IF Get(unit_info, "unit_name", <<>>) # <<>> THEN unit_info.unit_name
        ELSE IF discipline = Chars("ISYS") THEN Chars("Information Systems")
        ELSE IF discipline = Chars("COMP") THEN Chars("Computer Science")
        ELSE discipline \o Chars(" Unit")
      Semester(term, semester_match) ==
        IF semester_match.ok THEN ToInt(Group(term, semester_match, 1)) ELSE 1
      Year(year) == IF year # <<>> THEN ToInt(year) ELSE 0
      \* the rows of the benchmark levels, a row per category with both values
      categories ==
        << [ label |-> "Engaged", PA |-> "Engaged_PA", N |-> "Engaged_N" ],
           [ label |-> "Resources", PA |-> "Resources_PA", N |-> "Resources_N" ],
           [ label |-> "Support", PA |-> "Support_PA", N |-> "Support_N" ],
           [ label |-> "Assessments", PA |-> "Assessments_PA", N |-> "Assessments_N" ],
           [ label |-> "Expectations", PA |-> "Expectations_PA", N |-> "Expectations_N" ],
           [ label |-> "Overall", PA |-> "Overall_PA", N |-> "Overall_N" ] >>
      GroupType(level, group_name) ==
        IF Contains(level, Chars("School")) THEN "School"
        ELSE IF Contains(level, Chars("Faculty")) THEN "Faculty"
        ELSE IF Contains(level, Chars("Curtin")) THEN "University"
        ELSE group_name
      Cell(benchmark, category, group_name) ==
        Benchmark(GroupType(benchmark.Level, group_name), group_name, category.label,
                  benchmark[category.PA], benchmark[category.N])
      \* level by level, category by category
      Rows(benchmarks_raw) ==
        LET Cells(at) ==
              [ n \in 1..Len(at) |->
                  Cell(benchmarks_raw[at[n][1]], categories[at[n][2]],
                       Str(benchmarks_raw[at[n][1]].Level)) ]
        IN Cells(SelectSeq([ k \in 1..(6 * Len(benchmarks_raw)) |->
                             << ((k - 1) \div 6) + 1, ((k - 1) % 6) + 1 >> ],
                           LAMBDA at : /\ categories[at[2]].PA \in DOMAIN benchmarks_raw[at[1]]
                                       /\ categories[at[2]].N \in DOMAIN benchmarks_raw[at[1]]))
      DetailedResultOf(question_text, distribution) ==
        DetailedResult(question_text,
                       distribution.strongly_disagree.count, distribution.disagree.count,
                       distribution.neutral.count, distribution.agree.count,
                       distribution.strongly_agree.count,
                       Get(distribution, "agreement_percentage", 0))
      Record(unit_info, unit_code, discipline_code, term) ==
        [ unit_code |-> unit_code,
          unit_name |-> Str(UnitName(unit_info, Take(unit_info.unit_code, 4))),
          semester |-> Semester(term, Search(term, Patterns.semester, 1, {})),
          year |-> Year(Get(unit_info, "year", <<>>)),
          location |-> Str(Get(unit_info, "campus_name", Chars("Unknown"))),
          availability |-> Str(Get(unit_info, "mode", Chars("Internal"))),
          discipline_code |-> discipline_code,
          discipline_name |-> DisciplineName(discipline_code),
          enrollments |-> Get(raw_data.response_stats, "enrollments", 0),
          responses |-> Get(raw_data.response_stats, "responses", 0),
          response_rate |-> Get(raw_data.response_stats, "response_rate", 0),
          overall_experience |-> Get(raw_data.percentage_agreement, "overall", 0),
          benchmarks |-> Rows(raw_data.benchmarks),
          comments |->
            [ i \in 1..Len(raw_data.comments) |->
                Comment(Str(raw_data.comments[i]), EstimateSentiment(raw_data.comments[i])) ],
          detailed_results |->
            [ i \in 1..Len(raw_data.detailed_results) |->
                DetailedResultOf(raw_data.detailed_results[i].question_text,
                                 raw_data.detailed_results[i].distributions) ] ]
      Compiled(unit_info) ==
        IF unit_info = <<>> \/ "unit_code" \notin DOMAIN unit_info THEN NoData
        ELSE Record(unit_info, Str(unit_info.unit_code),
                    Str(IF Len(unit_info.unit_code) >= 4 THEN Take(unit_info.unit_code, 4)
                        ELSE <<>>),
                    Get(unit_info, "term", <<>>))
  IN Compiled(UnitInfoOf(raw_data.unit_info))

(***************************************************************************)
(* The state machine.                                                      *)
(***************************************************************************)
NoCall == [ called |-> FALSE ]

NoResults == [ total |-> 0, successful |-> 0, failed |-> 0, details |-> <<>> ]

\* no PDF file is being imported; estimate_sentiment has not been handed a text
NoJob == [ pc |-> "none" ]

NoText == [ words |-> <<>>, scores |-> <<>> ]

\* generate_response_distribution has not been called; no SurveyGenerator
\* has been constructed
NoDistribution == [ pc |-> "none" ]

NoGenerator == [ runs |-> 0 ]

Init ==
  /\ db \in { CreateSchema(EmptyFile), CreateSchema(EventScopedFile) }
  /\ nCalls = 0
  /\ last = NoCall
  /\ resolved = {}
  /\ pc = "idle"
  /\ pdf_files = <<>>
  /\ save_json = FALSE
  /\ results = NoResults
  /\ nSchema = 1
  /\ job = NoJob
  /\ sentiment = NoText
  /\ distributionCall = NoDistribution
  /\ generator = NoGenerator

\* a call store_pdf_data(data, conn) on a fresh connection to the database,
\* the call drawn from calls, at most max calls in a run
StorePdfDataStep(calls, max) ==
  /\ pc = "idle"
  /\ nCalls < max
  /\ \E call \in calls :
     \E r \in { StorePdfData(db, call[1], call[2]) } :
       /\ db' = r.db
       /\ last' = [ called |-> TRUE, data |-> call[1], fault |-> call[2],
                    before |-> db,
                    repeated |-> last.called /\ last.data = call[1]
                                   /\ last.fault = "none",
                    result |-> r.result, raised_at |-> r.raised_at,
                    insert_errors |-> r.insert_errors, trace |-> r.trace,
                    unit_offering_id |-> r.unit_offering_id,
                    event_id |-> r.event_id, survey_id |-> r.survey_id ]
       /\ resolved' = IF r.result.success
                      THEN resolved \cup
                             { [ data |-> call[1],
                                 unit_offering_id |-> r.unit_offering_id,
                                 event_id |-> r.event_id,
                                 survey_id |-> r.survey_id ] }
                      ELSE resolved
  /\ nCalls' = nCalls + 1
  /\ UNCHANGED <<pc, pdf_files, save_json, results, nSchema, job, sentiment, distributionCall, generator>>

StorePdfDataCall == StorePdfDataStep(StoreCalls, MaxCalls)

Next == StorePdfDataCall

Spec == Init /\ [][Next]_vars

\* process_folder up to the loop: the listing and the empty summary
ProcessFolderStart ==
  /\ pc = "idle"
  /\ \E listing \in Listings(MaxFiles), json_requested \in BOOLEAN :
       /\ pdf_files' = listing
       /\ save_json' = json_requested
       /\ results' = [ NoResults EXCEPT !.total = Len(listing) ]
  /\ pc' = "loop"
  /\ UNCHANGED <<db, nCalls, last, resolved, nSchema, job, sentiment, distributionCall, generator>>

\* one turn of the loop: process_pdf on the next file, then the counters and
\* the detail entry; an exception of process_pdf leaves process_folder
ProcessFolderFile ==
  /\ pc = "loop"
  /\ Len(results.details) < Len(pdf_files)
  /\ \E env \in Environments, fault \in BatchFaults :
     \E r \in { ProcessPdf(db, pdf_files[Len(results.details) + 1], save_json, env, fault) } :
       /\ db' = r.db
       /\ IF r.raised
          THEN /\ pc' = "raised"
               /\ UNCHANGED results
          ELSE /\ pc' = pc
               /\ results' =
                    [ results EXCEPT
                        !.successful = IF r.result.success THEN @ + 1 ELSE @,
                        !.failed = IF r.result.success THEN @ ELSE @ + 1,
                        !.details = Append(@, [ file |-> Len(results.details) + 1,
                                                result |-> r.result ]) ]
  /\ UNCHANGED <<nCalls, last, resolved, pdf_files, save_json, nSchema, job, sentiment, distributionCall, generator>>

\* return results
ProcessFolderReturn ==
  /\ pc = "loop"
  /\ Len(results.details) = Len(pdf_files)
  /\ pc' = "returned"
  /\ UNCHANGED <<db, nCalls, last, resolved, pdf_files, save_json, results, nSchema, job, sentiment, distributionCall, generator>>

NextBatch == ProcessFolderStart \/ ProcessFolderFile \/ ProcessFolderReturn

SpecBatch == Init /\ [][NextBatch]_vars

\* the file before Database(db_path).create_schema() has run on it
InitCatalog ==
  /\ db \in { EmptyFile, EventScopedFile }
  /\ nCalls = 0
  /\ last = NoCall
  /\ resolved = {}
  /\ pc = "idle"
  /\ pdf_files = <<>>
  /\ save_json = FALSE
  /\ results = NoResults
  /\ nSchema = 0
  /\ job = NoJob
  /\ sentiment = NoText
  /\ distributionCall = NoDistribution
  /\ generator = NoGenerator

\* Database(db_path).create_schema()
CreateSchemaCall ==
  /\ nSchema < MaxSchemaRuns
  /\ db' = CreateSchema(db)
  /\ nSchema' = nSchema + 1
  /\ UNCHANGED <<nCalls, last, resolved, pc, pdf_files, save_json, results, job, sentiment, distributionCall, generator>>

\* the imports run between and after the create_schema runs
CatalogCalls ==
  ((Records \cup { PartialRecord }) \X { "none" })
    \cup ({ FullRecord } \X { "question", "detail_insert", "commit" })

\* an import on a file whose tables exist
CatalogImport ==
  /\ nSchema >= 1
  /\ StorePdfDataStep(CatalogCalls, MaxImports)

NextCatalog == CreateSchemaCall \/ CatalogImport

SpecCatalog == InitCatalog /\ [][NextCatalog]_vars

\* the words the texts handed to estimate_sentiment are made of
Vocabulary == << "good", "Great", "enjoyed", "bad", "unclear", "Hard", "unit", "the" >>

\* a text of one to MaxWords words
InitSentiment ==
  /\ db = CreateSchema(EmptyFile)
  /\ nCalls = 0
  /\ last = NoCall
  /\ resolved = {}
  /\ pc = "idle"
  /\ pdf_files = <<>>
  /\ save_json = FALSE
  /\ results = NoResults
  /\ nSchema = 1
  /\ job = NoJob
  /\ distributionCall = NoDistribution
  /\ generator = NoGenerator
  /\ \E n \in 1..MaxWords : \E words \in [1..n -> 1..Len(Vocabulary)] :
       sentiment = [ words |-> [ i \in 1..n |-> Vocabulary[words[i]] ], scores |-> <<>> ]

\* the text of the words, as the PDF page gives it
TextOf(words) == JoinWords([ i \in 1..Len(words) |-> Chars(words[i]) ])

\* score = estimate_sentiment(text)
EstimateSentimentCall ==
  /\ Len(sentiment.scores) < MaxScores
  /\ sentiment' = [ sentiment EXCEPT
                      !.scores = Append(@, EstimateSentiment(TextOf(sentiment.words))) ]
  /\ UNCHANGED <<db, nCalls, last, resolved, pc, pdf_files, save_json, results, nSchema, job, distributionCall, generator>>

NextSentiment == EstimateSentimentCall

SpecSentiment == InitSentiment /\ [][NextSentiment]_vars

\* process_pdf(pdf_path, db_path) is about to run on one of the PDF files,
\* the database file in either layout
InitExtract ==
  /\ db \in { CreateSchema(EmptyFile), CreateSchema(EventScopedFile) }
  /\ nCalls = 0
  /\ last = NoCall
  /\ resolved = {}
  /\ pc = "idle"
  /\ pdf_files = <<>>
  /\ save_json = FALSE
  /\ results = NoResults
  /\ nSchema = 1
  /\ sentiment = NoText
  /\ distributionCall = NoDistribution
  /\ generator = NoGenerator
  /\ \E pdf_path \in DOMAIN Documents : job = [ pc |-> "called", pdf_path |-> pdf_path ]

\* raw_data = extract_survey_data(pdf_path), called by extract_info_from_pdf
ExtractSurveyDataCall ==
  /\ job.pc = "called"
  /\ job' = [ pc |-> "extracted", pdf_path |-> job.pdf_path,
              raw_data |-> ExtractSurveyData(Documents[job.pdf_path]),
              open_documents |-> DocumentsLeftOpen(Documents[job.pdf_path]) ]
  /\ UNCHANGED <<db, nCalls, last, resolved, pc, pdf_files, save_json, results, nSchema, sentiment, distributionCall, generator>>

\* the rest of extract_info_from_pdf: data, the record compiled from raw_data
\* (backup_doc, opened for the second look at the first page, is closed
\* once the page is read)
ExtractInfoFromPdfReturn ==
  /\ job.pc = "extracted"
  /\ job' = [ pc |-> "compiled", pdf_path |-> job.pdf_path, raw_data |-> job.raw_data,
              data |-> ExtractInfoFromPdf(job.raw_data, Documents[job.pdf_path]),
              open_documents |-> job.open_documents ]
  /\ UNCHANGED <<db, nCalls, last, resolved, pc, pdf_files, save_json, results, nSchema, sentiment, distributionCall, generator>>

\* the rest of process_pdf: the failure dict when data is None, else the
\* record stored by store_pdf_data; before is the database it started from
ProcessPdfReturn ==
  /\ job.pc = "compiled"
  /\ \E r \in { ProcessPdf(db, job.data, FALSE, "ok", "none") } :
       /\ db' = r.db
       /\ job' = [ pc |-> "returned", pdf_path |-> job.pdf_path, raw_data |-> job.raw_data,
                   data |-> job.data, before |-> db, result |-> r.result,
                   open_documents |-> job.open_documents,
                   open_connections |-> ConnectionsLeftOpen(job.data, r) ]
  /\ UNCHANGED <<nCalls, last, resolved, pc, pdf_files, save_json, results, nSchema, sentiment, distributionCall, generator>>

NextExtract == ExtractSurveyDataCall \/ ExtractInfoFromPdfReturn \/ ProcessPdfReturn

SpecExtract == InitExtract /\ [][NextExtract]_vars

(***************************************************************************)
(* SentimentGenerator.generate_response_distribution.  The random draws    *)
(* are inputs of the call; percent_agree is kept in hundredths.            *)
(***************************************************************************)
\* the keys of SENTIMENT_CATEGORIES
SENTIMENT_CATEGORIES == << "very_positive", "positive", "neutral", "negative", "very_negative" >>

\* the keys of a response template, in the order of the dict
ResponseOptions ==
  << "strongly_agree", "agree", "neutral", "disagree", "strongly_disagree", "unable_to_judge" >>

Template(sa, a, n, d, sd, u) ==
  [ strongly_agree |-> sa, agree |-> a, neutral |-> n, disagree |-> d,
    strongly_disagree |-> sd, unable_to_judge |-> u ]

\* the bounds of the draw for each response option, per sentiment category
RESPONSE_TEMPLATES ==
  [ very_positive |-> Template(<<50, 70>>, <<20, 35>>, <<5, 15>>, <<0, 5>>, <<0, 3>>, <<0, 2>>),
    positive      |-> Template(<<25, 40>>, <<35, 50>>, <<10, 20>>, <<3, 10>>, <<0, 5>>, <<0, 3>>),
    neutral       |-> Template(<<10, 25>>, <<25, 40>>, <<20, 40>>, <<10, 25>>, <<5, 15>>, <<0, 5>>),
    negative      |-> Template(<<0, 10>>, <<10, 25>>, <<15, 30>>, <<30, 45>>, <<15, 30>>, <<0, 5>>),
    very_negative |-> Template(<<0, 5>>, <<5, 15>>, <<10, 20>>, <<25, 40>>, <<30, 50>>, <<0, 5>>) ]

\* total_responses = random.randint(50, 150)
MinTotalResponses == 50
MaxTotalResponses == 150

\* the totals the model draws: every TotalStep-th from the least
TotalStep == 25

TotalResponses ==
  { t \in MinTotalResponses..MaxTotalResponses : (t - MinTotalResponses) % TotalStep = 0 }

\* the draws random.randint(v[0], v[1]) of the model: each option at one of
\* the two ends of its range
Draws(category) ==
  LET Ends(k) == { RESPONSE_TEMPLATES[category][k][1], RESPONSE_TEMPLATES[category][k][2] }
  IN { Template(sa, a, n, d, sd, u) :
         sa \in Ends("strongly_agree"), a \in Ends("agree"), n \in Ends("neutral"),
         d \in Ends("disagree"), sd \in Ends("strongly_disagree"),
         u \in Ends("unable_to_judge") }

\* round(num / den) for num >= 0 and den > 0.  The quotient is a float:
\* when num / den lies halfway between two integers the float may fall on
\* either side of the half or on it, and half_up says which of the two
\* integers the call returned
Round(num, den, half_up) ==
  IF 2 * (num % den) < den THEN num \div den
  ELSE IF 2 * (num % den) > den THEN (num \div den) + 1
  ELSE IF half_up THEN (num \div den) + 1 ELSE num \div den

\* sum(counts.values())
SumOf(counts) ==
  counts.strongly_agree + counts.agree + counts.neutral + counts.disagree
    + counts.strongly_disagree + counts.unable_to_judge

\* counts: the drawn values normalised to their sum and scaled to
\* total_responses, each rounded
Counts(drawn, total_responses, half_up) ==
  [ k \in DOMAIN drawn |-> Round(drawn[k] * total_responses, SumOf(drawn), half_up[k]) ]

\* the ways the roundings of a call may fall: for each count and for
\* percent_agree, which integer a quotient halfway between two gives (FALSE
\* for a count that is not halfway)
Roundings(drawn, total_responses) ==
  { half_up \in [ DOMAIN drawn \cup { "percent_agree" } -> BOOLEAN ] :
      \A k \in DOMAIN drawn :
        half_up[k] => 2 * ((drawn[k] * total_responses) % SumOf(drawn)) = SumOf(drawn) }

\* the counts left as they were rounded
NotAdjusted(counts, total_responses) == counts

\* the difference to total_responses added to the largest count, the first
\* of the largest in the order of the dict
Adjusted(counts, total_responses) ==
  LET largest == CHOOSE i \in 1..Len(ResponseOptions) :
                   /\ \A j \in 1..Len(ResponseOptions) :
                        counts[ResponseOptions[j]] <= counts[ResponseOptions[i]]
                   /\ \A j \in 1..(i - 1) :
                        counts[ResponseOptions[j]] < counts[ResponseOptions[i]]
      diff == total_responses - SumOf(counts)
  IN  IF SumOf(counts) # total_responses
      THEN [counts EXCEPT ![ResponseOptions[largest]] = @ + diff]
      ELSE counts

\* generate_response_distribution(sentiment, question_idx), the draws given:
\* the dict of the six counts, percent_agree and total_responses
GenerateResponseDistribution(category, total_responses, drawn, half_up) ==
  LET Returned(counts) ==
        counts @@
        [ percent_agree |->
            Round((counts.strongly_agree + counts.agree) * 10000, total_responses,
                  half_up.percent_agree),
          total_responses |-> total_responses ]
  IN Returned(Adjusted(Counts(drawn, total_responses, half_up), total_responses))

\* generate_response_distribution is about to run for a sentiment category,
\* the draws it will make chosen
InitDistribution ==
  /\ db = CreateSchema(EmptyFile)
  /\ nCalls = 0
  /\ last = NoCall
  /\ resolved = {}
  /\ pc = "idle"
  /\ pdf_files = <<>>
  /\ save_json = FALSE
  /\ results = NoResults
  /\ nSchema = 1
  /\ job = NoJob
  /\ sentiment = NoText
  /\ generator = NoGenerator
  /\ \E i \in 1..Len(SENTIMENT_CATEGORIES), total_responses \in TotalResponses :
     \E drawn \in Draws(SENTIMENT_CATEGORIES[i]) :
     \E half_up \in Roundings(drawn, total_responses) :
       distributionCall = [ pc |-> "called", sentiment |-> SENTIMENT_CATEGORIES[i],
                            total_responses |-> total_responses, drawn |-> drawn,
                            half_up |-> half_up ]

\* distribution = generate_response_distribution(sentiment, question_idx)
GenerateResponseDistributionCall ==
  /\ distributionCall.pc = "called"
  /\ distributionCall' =
       [ distributionCall EXCEPT !.pc = "returned" ] @@
       [ rounded |-> Counts(distributionCall.drawn, distributionCall.total_responses,
                            distributionCall.half_up),
         distribution |->
           GenerateResponseDistribution(distributionCall.sentiment,
                                        distributionCall.total_responses,
                                        distributionCall.drawn, distributionCall.half_up) ]
  /\ UNCHANGED <<db, nCalls, last, resolved, pc, pdf_files, save_json, results, nSchema, job,
                 sentiment, generator>>

SpecDistribution == InitDistribution /\ [][GenerateResponseDistributionCall]_vars

(***************************************************************************)
(* SurveyGenerator.generate_surveys on a database that create_schema made  *)
(* and populate_units filled.  The random draws of a run are its inputs;   *)
(* response_rate and the percentages are kept in hundredths.               *)
(***************************************************************************)
\* generate_surveys runs in a behaviour
MaxGeneratorRuns == 2

\* what the random module gives a run of generate_surveys: per semester
\* whether the unit is offered and where, the month of each survey event,
\* and the figures of a survey (the sentiment category, the enrolments, the
\* response rate, the draws of generate_response_distribution, the variances
\* and total_n of the benchmark groups, the comments), the same for every
\* survey of the run
GeneratorDraws ==
  LET offer == { <<FALSE, "", "">>, <<TRUE, "Bentley Campus", "Internal">>,
                 <<TRUE, "Online", "Online">> }
      Ends(category, n) ==
        [ k \in DOMAIN RESPONSE_TEMPLATES[category] |-> RESPONSE_TEMPLATES[category][k][n] ]
      figures ==
        { [ category |-> "positive", enrolments |-> 30, response_rate |-> 20,
            total_responses |-> MinTotalResponses, drawn |-> Ends("positive", 1),
            variance |-> [ School |-> -500, Faculty |-> -800, University |-> -1000 ],
            total_n |-> [ Unit |-> 30, School |-> 200, Faculty |-> 500, University |-> 2000 ],
            comments |-> << <<"Good unit overall.", 70>>, <<"I liked the lectures.", 65>>,
                            <<"Good unit overall.", 72>>, <<"Generally well-organized unit.", 70>>,
                            <<"The content was interesting", 75>> >> ],
          [ category |-> "negative", enrolments |-> 200, response_rate |-> 35,
            total_responses |-> MaxTotalResponses, drawn |-> Ends("negative", 2),
            variance |-> [ School |-> 500, Faculty |-> 800, University |-> 1000 ],
            total_n |-> [ Unit |-> 70, School |-> 500, Faculty |-> 1500, University |-> 5000 ],
            comments |-> << <<"Not very satisfied with this unit.", 30>>,
                            <<"The lectures needs significant improvement.", 25>>,
                            <<"Disappointed with the lectures.", 30>>,
                            <<"Not very satisfied with this unit.", 35>>,
                            <<"The workload needs significant improvement.", 28>> >> ] }
  IN { [ offers |-> offers, months |-> months, figures |-> f ] :
         offers \in [ {1, 2} -> offer ],
         months \in { m \in [ {1, 2} -> {5, 6, 10, 11} ] : m[1] \in {5, 6} /\ m[2] \in {10, 11} },
         f \in figures }

\* generate_semester_offerings(start_year, end_year): INSERT OR IGNORE of an
\* offering for each unit, year and semester the draw offers
GenerateSemesterOfferings(d, years, offers) ==
  LET offered ==
        { [ unit_code |-> u.unit_code, semester |-> semester, year |-> year,
            location |-> offers[semester][2], availability |-> offers[semester][3] ] :
            u \in d.unit, year \in years, semester \in { s \in {1, 2} : offers[s][1] } }
      new == { o \in offered : \A r \in d.unit_offering : OfferingKey(r) # OfferingKey(o) }
      \* the inserts of a unit in the order of the loops over year and semester
      \* (the database of the model holds one unit)
      Rank(o) == Cardinality({ p \in new :
                    \/ p.year < o.year
                    \/ p.year = o.year /\ p.semester <= o.semester })
      base == NextId({ r.unit_offering_id : r \in d.unit_offering }) - 1
  IN [d EXCEPT !.unit_offering = @ \cup
        { [ unit_offering_id |-> base + Rank(o), unit_code |-> o.unit_code,
            semester |-> o.semester, year |-> o.year, location |-> o.location,
            availability |-> o.availability ] : o \in new }]

\* generate_survey_events(start_year, end_year): a plain INSERT of a survey
\* event for each year and semester, its month drawn from semester_months
GenerateSurveyEvents(d, years, months) ==
  LET base == NextId({ r.event_id : r \in d.survey_event }) - 1
      first_year == CHOOSE y \in years : \A z \in years : y <= z
  IN [d EXCEPT !.survey_event = @ \cup
        { [ event_id |-> base + 2 * (year - first_year) + semester,
            month |-> months[semester], year |-> year,
            description |-> <<"Semester", semester, year, "Survey">> ] :
            year \in years, semester \in {1, 2} }]

\* _generate_benchmarks(survey_id, questions, sentiment): for each question
\* with a result row of the survey, a plain INSERT of a benchmark for each
\* of the four groups
GenerateBenchmarks(d, survey_id, figures) ==
  LET benchmark_groups == << "Unit", "School", "Faculty", "University" >>
      result_rows == { r \in d.unit_survey_result : r.survey_id = survey_id }
      \* fetchone(): the first result row of the question
      unit_percent(q_id) ==
        (CHOOSE r \in result_rows :
           /\ r.question_id = q_id
           /\ \A p \in result_rows : p.question_id = q_id => r.result_id <= p.result_id).percent_agree
      Clamp(x) == IF x < 0 THEN 0 ELSE IF x > 10000 THEN 10000 ELSE x
      q_ids == { r.question_id : r \in result_rows }
      QRank(q_id) == Cardinality({ q \in q_ids : q < q_id })
      base == NextId({ r.benchmark_id : r \in d.benchmark }) - 1
  IN [d EXCEPT !.benchmark = @ \cup
        { [ benchmark_id |-> base + QRank(q_id) * Len(benchmark_groups) + g,
            survey_id |-> survey_id, question_id |-> q_id,
            group_type |-> benchmark_groups[g],
            percent_agree |->
              IF benchmark_groups[g] = "Unit" THEN unit_percent(q_id)
              ELSE Clamp(unit_percent(q_id) + figures.variance[benchmark_groups[g]]),
            total_n |-> figures.total_n[benchmark_groups[g]] ] :
            q_id \in q_ids, g \in 1..Len(benchmark_groups) }]

\* one offering of the loop of generate_surveys: the survey, its result
\* rows, overall_experience, its benchmarks and its comments
GenerateSurvey(d, offering, figures) ==
  LET semester_months == [ s \in {1, 2} |-> IF s = 1 THEN <<5, 6>> ELSE <<10, 11>> ]
      \* events = {(year, month): event_id}, a later row replacing an earlier
      found == { e \in d.survey_event :
                   e.year = offering.year /\ e.month = semester_months[offering.semester][1] }
      event_id == MaxOf({ e.event_id : e \in found })
      survey_id == NextId({ r.survey_id : r \in d.unit_survey })
      distribution ==
        GenerateResponseDistribution(figures.category, figures.total_responses, figures.drawn,
                                     [ k \in DOMAIN figures.drawn \cup { "percent_agree" } |-> FALSE ])
      overall == { q \in d.question : SubSeq(Chars(q.question_text), 1, 7) = Chars("Overall") }
      result_base == NextId({ r.result_id : r \in d.unit_survey_result }) - 1
      comment_base == NextId({ r.comment_id : r \in d.comment }) - 1
      Commented(t) ==
        [t EXCEPT !.comment = @ \cup
           { [ comment_id |-> comment_base + i, survey_id |-> survey_id,
               comment_text |-> figures.comments[i][1],
               sentiment_score |-> figures.comments[i][2] ] :
               i \in 1..Len(figures.comments) }]
  IN IF found = {} THEN d
     ELSE Commented(GenerateBenchmarks(
            [d EXCEPT
               !.unit_survey = @ \cup
                 { [ survey_id |-> survey_id, unit_offering_id |-> offering.unit_offering_id,
                     event_id |-> event_id, enrolments |-> figures.enrolments,
                     responses |-> Round(figures.enrolments * figures.response_rate, 100, FALSE),
                     response_rate |-> figures.response_rate,
                     overall_experience |->
                       IF overall = {} THEN 0 ELSE distribution.percent_agree ] },
               !.unit_survey_result = @ \cup
                 { [ result_id |-> result_base + Cardinality({ p \in d.question :
                                                      p.question_id <= q.question_id }),
                     survey_id |-> survey_id, question_id |-> q.question_id,
                     strongly_disagree |-> distribution.strongly_disagree,
                     disagree |-> distribution.disagree, neutral |-> distribution.neutral,
                     agree |-> distribution.agree,
                     strongly_agree |-> distribution.strongly_agree,
                     unable_to_judge |-> distribution.unable_to_judge,
                     percent_agree |-> distribution.percent_agree ] : q \in d.question }],
            survey_id, figures))

\* generate_surveys(start_year, end_year): the offerings, the survey events,
\* then a survey for every offering of the database, in the order of their ids
RECURSIVE GenerateSurveysFrom(_, _, _)
GenerateSurveysFrom(d, offerings, figures) ==
  IF offerings = {} THEN d
  ELSE LET offering == CHOOSE o \in offerings :
                         \A p \in offerings : o.unit_offering_id <= p.unit_offering_id
       IN GenerateSurveysFrom(GenerateSurvey(d, offering, figures),
                              offerings \ { offering }, figures)

GenerateSurveys(d, years, drawn) ==
  LET Loop(t) == GenerateSurveysFrom(t, t.unit_offering, drawn.figures)
  IN Loop(GenerateSurveyEvents(GenerateSemesterOfferings(d, years, drawn.offers),
                               years, drawn.months))

\* a SurveyGenerator on a database create_schema has made, after
\* populate_units: the disciplines and a unit
InitGenerator ==
  /\ db = [ CreateSchema(EmptyFile) EXCEPT
              !.discipline = { [ discipline_code |-> "ISYS",
                                 discipline_name |-> "Information Systems" ] },
              !.unit = { [ unit_code |-> "ISYS2001",
                           unit_name |-> "Introduction to Information Systems",
                           discipline_code |-> "ISYS" ] } ]
  /\ nCalls = 0
  /\ last = NoCall
  /\ resolved = {}
  /\ pc = "idle"
  /\ pdf_files = <<>>
  /\ save_json = FALSE
  /\ results = NoResults
  /\ nSchema = 1
  /\ job = NoJob
  /\ sentiment = NoText
  /\ distributionCall = NoDistribution
  /\ generator = NoGenerator

\* generator.generate_surveys(start_year, end_year), every run for the same
\* year range
GenerateSurveysCall ==
  /\ generator.runs < MaxGeneratorRuns
  /\ \E drawn \in GeneratorDraws :
       db' = GenerateSurveys(db, {2024}, drawn)
  /\ generator' = [ runs |-> generator.runs + 1, years |-> {2024}, before |-> db ]
  /\ UNCHANGED <<nCalls, last, resolved, pc, pdf_files, save_json, results, nSchema, job,
                 sentiment, distributionCall>>

SpecGenerator == InitGenerator /\ [][GenerateSurveysCall]_vars

(***************************************************************************)
(* Properties of store_pdf_data, over the calls StorePdfDataCall makes.     *)
(* In a state after a call, last.before is the database the call started   *)
(* from and db the database it left.                                       *)
(***************************************************************************)

\* C1 (idempotence of import): when store_pdf_data has run with a record,
\* the database answering every statement of that run, a second run with the
\* same record leaves the row count of every table (discipline, unit,
\* unit_offering, survey_event, unit_survey, benchmark, unit_survey_result,
\* comment) what it was after the first run -- whatever the database held
\* before the first run.
C1_Idempotence ==
  LET RowCounts(d) ==
        << Cardinality(d.discipline), Cardinality(d.unit),
           Cardinality(d.unit_offering), Cardinality(d.survey_event),
           Cardinality(d.unit_survey), Cardinality(d.benchmark),
           Cardinality(d.unit_survey_result), Cardinality(d.comment) >>
  IN  (last.called /\ last.repeated) => RowCounts(db) = RowCounts(last.before)

\* a full report imported a second time, successfully, into a database that
\* held another import before the first time
C1_Witness ==
  /\ nCalls = 3
  /\ last.called
  /\ last.repeated
  /\ last.fault = "none"
  /\ last.result.success
  /\ db.benchmark # {}
  /\ db.unit_survey_result # {}
  /\ \E c \in db.comment : c.survey_id = last.survey_id
  /\ \E s \in db.unit_survey : s.survey_id # last.survey_id

\* C2 (isolation of a failed import): whenever store_pdf_data returns
\* success = False, the database equals the database before the call: rows
\* committed by earlier imports are unchanged and the failed record
\* contributes no row to any table.
C2_FailedImportIsolated ==
  (last.called /\ ~ last.result.success) => db = last.before

\* an import that fails after some of its statements were applied, with an
\* earlier import's rows in the database
C2_Witness ==
  /\ last.called
  /\ ~ last.result.success
  /\ last.before.unit_survey # {}
  /\ \E i \in 1..Len(last.trace) : last.trace[i] # last.before

\* C3 (any raising statement rolls back): if a database statement executed
\* in the discipline, unit, offering, event, survey, benchmark,
\* detailed-result or comment step raises, the transaction is rolled back,
\* nothing of the record is committed and the result has success = False.
C3_AnyRaiseRollsBack ==
  (last.called /\ (last.raised_at # "none" \/ last.insert_errors > 0))
    => (~ last.result.success /\ db = last.before)

\* C5 (unit offering uniqueness): no two unit_offering rows share
\* (unit_code, semester, year, location, availability), and all committed
\* imports with the same tuple resolved to the same unit_offering_id, the id
\* of the row with that tuple.
C5_UnitOfferingUnique ==
  /\ \A a, b \in db.unit_offering : OfferingKey(a) = OfferingKey(b) => a = b
  /\ \A x, y \in resolved :
       OfferingKey(x.data) = OfferingKey(y.data) => x.unit_offering_id = y.unit_offering_id
  /\ \A x \in resolved :
       \E o \in db.unit_offering :
         o.unit_offering_id = x.unit_offering_id /\ OfferingKey(o) = OfferingKey(x.data)

\* two different reports of the same offering imported, next to another
\* offering
C5_Witness ==
  /\ \E x, y \in resolved :
       /\ x.data # y.data
       /\ OfferingKey(x.data) = OfferingKey(y.data)
       /\ x.data.enrollments # y.data.enrollments
  /\ Cardinality(db.unit_offering) >= 2

\* C6 (unit survey, first import wins): there is at most one unit_survey row
\* per (unit_offering_id, event_id); a row carries the enrolments, responses,
\* response_rate and overall_experience of the import that created it; a
\* later import for the same offering and event reuses its survey_id and
\* leaves the row as it is.
C6_FirstImportWins ==
  /\ \A s1, s2 \in db.unit_survey :
       (s1.unit_offering_id = s2.unit_offering_id /\ s1.event_id = s2.event_id) => s1 = s2
  /\ last.called =>
       /\ \A s \in last.before.unit_survey : s \in db.unit_survey
       /\ \A s \in db.unit_survey \ last.before.unit_survey :
            /\ s.survey_id = last.survey_id
            /\ s.enrolments = last.data.enrollments
            /\ s.responses = last.data.responses
            /\ s.response_rate = last.data.response_rate
            /\ s.overall_experience = last.data.overall_experience
       /\ last.result.success =>
            \A s \in last.before.unit_survey :
              (s.unit_offering_id = last.unit_offering_id /\ s.event_id = last.event_id)
                => s.survey_id = last.survey_id

\* a committed import that found the survey of its offering and event
\* created by an import with other statistics
C6_Witness ==
  /\ last.called
  /\ last.result.success
  /\ \E s \in last.before.unit_survey :
       /\ s.survey_id = last.survey_id
       /\ s.enrolments # last.data.enrollments
       /\ s.overall_experience # last.data.overall_experience

\* C7 (survey event sharing): a committed import of a semester-1 record uses
\* an event of month 5 and one of a semester-2 record an event of month 10,
\* in the record's year; there is at most one survey_event row per
\* (year, month); all committed imports with the same year and semester use
\* the same event_id.
C7_SurveyEventShared ==
  /\ \A e1, e2 \in db.survey_event :
       (e1.year = e2.year /\ e1.month = e2.month) => e1 = e2
  /\ \A x \in resolved :
       \E e \in db.survey_event :
         /\ e.event_id = x.event_id
         /\ e.year = x.data.year
         /\ x.data.semester = 1 => e.month = 5
         /\ x.data.semester = 2 => e.month = 10
  /\ \A x, y \in resolved :
       (x.data.year = y.data.year /\ x.data.semester = y.data.semester)
         => x.event_id = y.event_id

\* two units imported for semester 1 and one record for semester 2
C7_Witness ==
  /\ \E x, y \in resolved :
       /\ x.data.unit_code # y.data.unit_code
       /\ x.data.semester = 1
       /\ y.data.semester = 1
  /\ \E z \in resolved : z.data.semester = 2
  /\ Cardinality(db.survey_event) = 2

\* C8 (benchmark uniqueness): no two benchmark rows share (event_id,
\* question_id, group_type); an import inserts a benchmark row only when no
\* row with that key existed, and leaves every existing row, with its
\* percent_agree and total_n, as it is.
C8_BenchmarkUnique ==
  /\ \A b1, b2 \in db.benchmark :
       ( /\ b1.event_id = b2.event_id
         /\ b1.question_id = b2.question_id
         /\ b1.group_type = b2.group_type ) => b1 = b2
  /\ last.called =>
       /\ \A b \in last.before.benchmark : b \in db.benchmark
       /\ \A b \in db.benchmark \ last.before.benchmark :
            ~ \E o \in last.before.benchmark :
                /\ o.event_id = b.event_id
                /\ o.question_id = b.question_id
                /\ o.group_type = b.group_type

\* a committed import whose record carries a benchmark for a key already
\* stored with another percent_agree and total_n
C8_Witness ==
  /\ last.called
  /\ last.result.success
  /\ \E i \in 1..Len(last.data.benchmarks) :
     \E o \in last.before.benchmark :
     \E q \in db.question :
       /\ q.question_text = QuestionLabelMap(last.data.benchmarks[i].question_label)
       /\ o.question_id = q.question_id
       /\ o.event_id = last.event_id
       /\ o.group_type = last.data.benchmarks[i].group_type
       /\ o.percent_agree # last.data.benchmarks[i].percent_agree
       /\ o.total_n # last.data.benchmarks[i].total_n

\* C9 (referential integrity): in the committed database, and in the
\* working copy after every step of an import, each unit references an
\* existing discipline, each unit_offering an existing unit, each
\* unit_survey an existing unit_offering and survey_event, each benchmark an
\* existing survey_event and question, each unit_survey_result and comment an
\* existing unit_survey (and question); the steps run in the order
\* discipline, unit, unit_offering, survey_event, unit_survey, and no
\* benchmark, result or comment row is inserted before the fifth is done.
C9_ReferentialIntegrity ==
  LET Integral(d) ==
        /\ \A u \in d.unit :
             \E p \in d.discipline : p.discipline_code = u.discipline_code
        /\ \A o \in d.unit_offering :
             \E p \in d.unit : p.unit_code = o.unit_code
        /\ \A s \in d.unit_survey :
             /\ \E p \in d.unit_offering : p.unit_offering_id = s.unit_offering_id
             /\ \E p \in d.survey_event : p.event_id = s.event_id
        /\ \A b \in d.benchmark :
             /\ \E p \in d.survey_event : p.event_id = b.event_id
             /\ \E p \in d.question : p.question_id = b.question_id
        /\ \A r \in d.unit_survey_result :
             /\ \E p \in d.unit_survey : p.survey_id = r.survey_id
             /\ \E p \in d.question : p.question_id = r.question_id
        /\ \A c \in d.comment :
             \E p \in d.unit_survey : p.survey_id = c.survey_id
      Parents(d) == << d.discipline, d.unit, d.unit_offering, d.survey_event, d.unit_survey >>
      Children(d) == << d.benchmark, d.unit_survey_result, d.comment >>
  IN  /\ Integral(db)
      /\ last.called =>
           \A i \in 1..Len(last.trace) :
             /\ Integral(last.trace[i])
             /\ i <= 5 =>
                  /\ Children(last.trace[i]) = Children(last.before)
                  /\ \A k \in (i + 1)..5 :
                       Parents(last.trace[i])[k] = Parents(last.before)[k]

\* a committed import that created a row in every table
C9_Witness ==
  /\ last.called
  /\ last.result.success
  /\ Len(last.trace) = 8
  /\ db.discipline # last.before.discipline
  /\ db.unit # last.before.unit
  /\ db.unit_offering # last.before.unit_offering
  /\ db.survey_event # last.before.survey_event
  /\ db.unit_survey # last.before.unit_survey
  /\ db.benchmark # last.before.benchmark
  /\ db.unit_survey_result # last.before.unit_survey_result
  /\ db.comment # last.before.comment

\* C10 (append-only imports): store_pdf_data updates and deletes no row of
\* any table: every row of the database before a call is in the database
\* after it; so a unit's name and a discipline's name stay what their first
\* insert made them when a later record names the code differently.
C10_AppendOnly ==
  last.called =>
    /\ last.before.discipline \subseteq db.discipline
    /\ last.before.unit \subseteq db.unit
    /\ last.before.unit_offering \subseteq db.unit_offering
    /\ last.before.survey_event \subseteq db.survey_event
    /\ last.before.question \subseteq db.question
    /\ last.before.unit_survey \subseteq db.unit_survey
    /\ last.before.benchmark \subseteq db.benchmark
    /\ last.before.unit_survey_result \subseteq db.unit_survey_result
    /\ last.before.comment \subseteq db.comment

\* committed imports whose records name a stored unit and a stored
\* discipline differently
C10_Witness ==
  /\ \E x \in resolved : \E u \in db.unit :
       u.unit_code = x.data.unit_code /\ u.unit_name # x.data.unit_name
  /\ \E y \in resolved : \E p \in db.discipline :
       p.discipline_code = y.data.discipline_code
         /\ p.discipline_name # y.data.discipline_name

(***************************************************************************)
(* Properties of process_folder.                                           *)
(***************************************************************************)

\* C11 (fixed question catalog): once create_schema has run on the file, one
\* or more times, and whatever imports have run since, the question table
\* holds exactly the six standard questions, ids 1 to 6 in catalog order; no
\* later create_schema run and no import adds or changes a question row.
C11_FixedCatalog ==
  nSchema >= 1 =>
    db.question = { [question_id |-> i, question_text |-> StandardQuestions[i]] :
                      i \in 1..6 }

\* create_schema has run twice and an import that resolved questions for its
\* detailed results has committed
C11_Witness ==
  /\ nSchema = 2
  /\ last.called
  /\ last.result.success
  /\ last.data.detailed_results # <<>>
  /\ Cardinality(db.unit_survey_result) > 0

\* C17 (sentiment boundaries): estimate_sentiment returns 0.0 for a text
\* matching no word of either keyword list, 1.0 for a text made only of
\* positive-list words and -1.0 for a text made only of negative-list
\* words; for every text the score is
\* (positive_count - negative_count) / (positive_count + negative_count),
\* lies in [-1, 1], and is the same on every call.
C17_SentimentBoundaries ==
  LET text_lower == Lower(TextOf(sentiment.words))
      positive_count == CountWords(positive_words, text_lower)
      negative_count == CountWords(negative_words, text_lower)
      total == positive_count + negative_count
      OnlyOf(list) ==
        \A i \in 1..Len(sentiment.words) :
          \E j \in 1..Len(list) : Lower(Chars(sentiment.words[i])) = Chars(list[j])
  IN \A c \in 1..Len(sentiment.scores) :
       LET score == sentiment.scores[c] IN
         /\ total = 0 => score = 0
         /\ OnlyOf(positive_words) => score = 100
         /\ OnlyOf(negative_words) => score = -100
         /\ total > 0 => /\ score * total <= (positive_count - negative_count) * 100
                         /\ (positive_count - negative_count) * 100 < (score + 1) * total
         /\ score \in -100..100
         /\ score = sentiment.scores[1]


\* C19 (comment duplicate guard): in an import that commits, a comment of
\* the record is skipped exactly when a comment already stored for the same
\* survey (by an earlier import, or earlier in this one) has the same first
\* 50 characters; every other comment is inserted with its sentiment score.
C19_CommentDuplicateGuard ==
  (last.called /\ last.result.success /\ last.fault = "none") =>
    LET cs == last.data.comments
        Prefix(x) == Take(Chars(x), PrefixLen)
        stored == { r.comment_text : r \in { x \in last.before.comment :
                                                x.survey_id = last.survey_id } }
        added == db.comment \ last.before.comment
    IN \A i \in 1..Len(cs) :
         LET shares ==
               \/ \E x \in stored : Prefix(x) = Prefix(cs[i].comment_text)
               \/ \E j \in 1..(i - 1) : Prefix(cs[j].comment_text) = Prefix(cs[i].comment_text)
             inserted ==
               \E r \in added : /\ r.survey_id = last.survey_id
                                 /\ r.comment_text = cs[i].comment_text
                                 /\ r.sentiment_score = cs[i].sentiment_score
         IN shares <=> ~ inserted

\* C20 (detailed-result question resolution): in an import that commits,
\* a detailed-result row is attached to the question found by the first
\* succeeding strategy among exact text, text with or without the final
\* period, unambiguous prefix LIKE match and keyword classification; a row
\* that none of these resolves is skipped and adds no unit_survey_result
\* row.
C20_QuestionResolution ==
  (last.called /\ last.result.success /\ last.fault = "none") =>
    LET rs == last.data.detailed_results
        Named(qt) == OrElse(ByExactText(last.before, QuestionMapping(qt)),
                     OrElse(ByPeriod(last.before, QuestionMapping(qt)),
                     OrElse(ByLike(last.before, qt),
                            ByKeyword(last.before, qt))))
        question_id == [ i \in 1..Len(rs) |-> Named(Chars(rs[i].question_text)) ]
        added == db.unit_survey_result \ last.before.unit_survey_result
    IN /\ \A i \in 1..Len(rs) :
            question_id[i] # 0 =>
              \E r \in db.unit_survey_result :
                r.survey_id = last.survey_id /\ r.question_id = question_id[i]
       /\ \A r \in added :
            \E i \in 1..Len(rs) :
              /\ r.question_id = question_id[i]
              /\ r.survey_id = last.survey_id
              /\ r.percent_agree = rs[i].percent_agree

\* C12 (minimum viable record): extract_info_from_pdf returns a record only
\* when both the unit code and the term and year were resolved from the
\* document; when the unit code or the term and year are not resolved the
\* document is rejected: there is no record, process_pdf returns
\* success = False and no row is persisted.
C12_MinimumViableRecord ==
  job.pc \in { "compiled", "returned" } =>
    LET unit_info == job.raw_data.unit_info
        term_year == { "term", "year" } \subseteq DOMAIN unit_info
    IN /\ job.data # NoData => (job.data.unit_code # "" /\ term_year)
       /\ (job.pc = "returned" /\ (job.data = NoData \/ ~ term_year)) =>
            (~ job.result.success /\ db = job.before)

\* C13 (graceful degradation): a document whose identity section resolves
\* is not rejected for a missing section: statistics, agreement, benchmark,
\* detail and comment sections that were not found are zero or empty in the
\* record; and when its benchmark page yields no benchmark row, process_pdf
\* succeeds with benchmarks = 0 and the unit, unit_offering and unit_survey
\* rows of the record exist afterwards.
C13_GracefulDegradation ==
  (job.pc \in { "compiled", "returned" } /\ "unit_code" \in DOMAIN job.raw_data.unit_info) =>
    LET raw_data == job.raw_data
        data == job.data
    IN /\ data # NoData
       /\ raw_data.response_stats = <<>> =>
            (data.enrollments = 0 /\ data.responses = 0 /\ data.response_rate = 0)
       /\ "overall" \notin DOMAIN raw_data.percentage_agreement => data.overall_experience = 0
       /\ raw_data.benchmarks = <<>> => data.benchmarks = <<>>
       /\ raw_data.detailed_results = <<>> => data.detailed_results = <<>>
       /\ raw_data.comments = <<>> => data.comments = <<>>
       /\ (job.pc = "returned" /\ raw_data.benchmarks = <<>>) =>
            /\ job.result.success
            /\ job.result.benchmarks = 0
            /\ db.benchmark = job.before.benchmark
            /\ \E u \in db.unit : u.unit_code = data.unit_code
            /\ \E o \in db.unit_offering :
                 /\ o.unit_code = data.unit_code
                 /\ o.semester = data.semester /\ o.year = data.year
                 /\ \E s \in db.unit_survey : s.unit_offering_id = o.unit_offering_id

\* a document with a benchmark page that yields no row and without
\* statistics, imported
C13_Witness ==
  /\ job.pc = "returned"
  /\ Len(Documents[job.pdf_path]) >= 4
  /\ job.raw_data.benchmarks = <<>>
  /\ job.raw_data.response_stats = <<>>
  /\ job.result.success
  /\ job.before.unit_survey = {}
  /\ db.unit_survey # {}

\* C14 (short documents): for a document of any page count from 1 upward,
\* extract_survey_data skips exactly the sections whose page is absent and
\* runs the recognizers of every page that is present: the unit info is
\* that of the first page, the statistics and agreement those of the third
\* page, the benchmarks those of the fourth, and each is empty only as the
\* recognizers leave it or when its page is absent.
C14_ShortDocuments ==
  job.pc \in { "extracted", "compiled", "returned" } =>
    LET doc == Documents[job.pdf_path]
        raw_data == job.raw_data
        unit_info == UnitInfo(Chars(doc[1]))
    IN /\ raw_data.unit_info = unit_info
       /\ raw_data.response_stats =
            IF Len(doc) >= 3 THEN ResponseStats(Chars(doc[3])) ELSE <<>>
       /\ raw_data.percentage_agreement =
            IF Len(doc) >= 3 THEN PercentageAgreement(Chars(doc[3])) ELSE <<>>
       /\ raw_data.benchmarks =
            IF Len(doc) >= 4
            THEN Benchmarks(Chars(doc[4]),
                            IF "unit_code" \in DOMAIN unit_info THEN unit_info.unit_code ELSE <<>>)
            ELSE <<>>
       /\ Len(doc) < 5 => raw_data.detailed_results = <<>>
       /\ Len(doc) < 8 => raw_data.comments = <<>>

\* C15 (benchmark zip): for a benchmark level whose text span holds exactly
\* six percentage tokens and six multi-digit integer sample-size tokens,
\* the level's row gives the i-th percentage as percent_agree and the i-th
\* sample size as total_n of the i-th question, in the order Engaged,
\* Resources, Support, Assessments, Expectations, Overall.
C15_BenchmarkZip ==
  (job.pc \in { "compiled", "returned" } /\ Len(Documents[job.pdf_path]) >= 4
     /\ job.data # NoData) =>
    LET page3_text == Chars(Documents[job.pdf_path][4])
        level_name == << "Overall", job.data.unit_code, "School", "Faculty", "Curtin" >>
        labels == << "Engaged", "Resources", "Support", "Assessments", "Expectations", "Overall" >>
        \* the tokens of a text: its maximal runs without white space
        token == [ op |-> "rep", x |-> [ op |-> "set", set |-> Classes.s, neg |-> TRUE ],
                   min |-> 1, max |-> -1, lazy |-> FALSE ]
        Tokens(text) == LET ms == Matches(text, token, 1, {})
                        IN [ i \in 1..Len(ms) |-> Group(text, ms[i], 0) ]
        IsPercentage(t) == Len(t) > 1 /\ t[Len(t)] = "%"
        IsSampleSize(t) == Len(t) >= 2 /\ \A i \in 1..Len(t) : t[i] \in Classes.d
        Zipped(i, level_text) ==
          LET percentages == SelectSeq(Tokens(level_text), IsPercentage)
              sizes == SelectSeq(Tokens(level_text), IsSampleSize)
          IN (Len(percentages) = 6 /\ Len(sizes) = 6) =>
               \A k \in 1..6 :
                 \E b \in { job.data.benchmarks[n] : n \in 1..Len(job.data.benchmarks) } :
                   /\ IF i = 2 THEN Contains(Chars(b.group_name), Chars(level_name[i]))
                      ELSE b.group_name = level_name[i]
                   /\ b.question_label = labels[k]
                   /\ b.percent_agree = ToFloat(SubSeq(percentages[k], 1, Len(percentages[k]) - 1))
                   /\ b.total_n = ToInt(sizes[k])
    IN \A i \in 1..Len(level_name) :
         LET span == Search(page3_text, Patterns.benchmark_levels[i].span, 1, {"S", "I"})
         IN span.ok => Zipped(i, Group(page3_text, span, 1))

\* C16 (benchmark group types): every benchmark row that extraction
\* produces, and every one an import persists, has group_type Unit, School,
\* Faculty, University or Overall; a label containing School, Faculty or
\* Curtin is standardised to School, Faculty and University respectively,
\* and group_name keeps the label.
C16_BenchmarkGroupTypes ==
  (job.pc \in { "compiled", "returned" } /\ job.data # NoData) =>
    LET group_types == { "Unit", "School", "Faculty", "University", "Overall" }
        levels == { job.raw_data.benchmarks[i].Level : i \in 1..Len(job.raw_data.benchmarks) }
        Labelled(b, label) == Contains(Chars(b.group_name), Chars(label))
    IN /\ \A i \in 1..Len(job.data.benchmarks) :
            LET b == job.data.benchmarks[i]
            IN /\ b.group_type \in group_types
               /\ Labelled(b, "School") => b.group_type = "School"
               /\ Labelled(b, "Faculty") => b.group_type = "Faculty"
               /\ Labelled(b, "Curtin") => b.group_type = "University"
               /\ Chars(b.group_name) \in levels
       /\ job.pc = "returned" =>
            \A r \in db.benchmark \ job.before.benchmark : r.group_type \in group_types

\* C18 (unit identity recognition): when the first page holds a title
\* "<4-letter code><digits> <name> - Semester <n> <year>" and a campus line
\* "- <location> Campus - (Internal|Online)", the extracted record has that
\* code as unit_code, that name as unit_name, n as semester, the year as
\* year, the location as location and the mode as availability.
C18_UnitIdentity ==
  (job.pc \in { "compiled", "returned" } /\ job.data # NoData) =>
    LET page0_text == Chars(Documents[job.pdf_path][1])
        title == Search(page0_text, Patterns.unit_match_1, 1, {})
        term == IF title.ok
                THEN Search(page0_text, Patterns.semester_match, title.caps[2][2], {})
                ELSE NoMatch
        campus == Search(page0_text, Patterns.campus_mode_match, 1, {})
        \* the title's "Semester" is the one the term starts with
        Titled == /\ title.ok /\ term.ok /\ campus.ok
                  /\ term.start = title.pos - Len(Chars("Semester"))
    IN Titled =>
         /\ Chars(job.data.unit_code) = Group(page0_text, title, 1)
         /\ Chars(job.data.unit_name) = Group(page0_text, title, 2)
         /\ job.data.semester = ToInt(Group(page0_text, term, 1))
         /\ job.data.year = ToInt(Group(page0_text, term, 2))
         /\ Chars(job.data.location) = Strip(Group(page0_text, campus, 1))
         /\ Chars(job.data.availability) = Group(page0_text, campus, 2)

\* C21 (schema agreement): on a database whose benchmark table
\* Database.create_schema created, store_pdf_data of a record with a
\* benchmark row whose question resolves, no statement failing, succeeds,
\* and every such benchmark is stored under (event_id, question_id,
\* group_type), a row inserted by the import carrying its group_name.
C21_SchemaAgreement ==
  ( /\ last.called
    /\ last.fault = "none"
    /\ last.before.benchmark_columns = "survey_id"
    /\ \E i \in 1..Len(last.data.benchmarks) :
         BenchmarkResolves(last.before, last.data.benchmarks[i]) ) =>
    /\ last.result.success
    /\ \A i \in 1..Len(last.data.benchmarks) :
         BenchmarkResolves(last.before, last.data.benchmarks[i]) =>
           \E r \in db.benchmark :
             /\ r.event_id = last.event_id
             /\ r.question_id =
                  QuestionMap(db, QuestionLabelMap(last.data.benchmarks[i].question_label))
             /\ r.group_type = last.data.benchmarks[i].group_type
             /\ r \notin last.before.benchmark =>
                  r.group_name = last.data.benchmarks[i].group_name

\* C25 (semester domain): when the term/year recognizer or its fallback
\* accepts the text of the first page, every unit_offering row the import
\* writes has semester 1 or 2.
C25_SemesterDomain ==
  (job.pc = "returned") =>
    LET page0_text == Chars(Documents[job.pdf_path][1])
    IN ( \/ Search(page0_text, Patterns.term_year_match, 1, {"I"}).ok
         \/ Search(page0_text, Patterns.semester_match, 1, {}).ok ) =>
         \A o \in db.unit_offering \ job.before.unit_offering : o.semester \in { 1, 2 }

\* C27 (semester value): when the term recognizer matches "Semester n
\* <year>" on the first page, in any letter case, the record has semester n
\* and that year, and the unit_offering and survey_event rows an import of
\* it writes carry semester n, the year and the month of semester n.
C27_SemesterValue ==
  (job.pc \in { "compiled", "returned" } /\ job.data # NoData) =>
    LET page0_text == Chars(Documents[job.pdf_path][1])
        term_year_match == Search(page0_text, Patterns.term_year_match, 1, {"I"})
        term == Group(page0_text, term_year_match, 1)
        n == ToInt(<< term[Len(term)] >>)
        year == ToInt(Group(page0_text, term_year_match, 2))
    IN (term_year_match.ok /\ LowerChar(term[1]) = "s") =>
         /\ job.data.semester = n
         /\ job.data.year = year
         /\ job.pc = "returned" =>
              /\ \A o \in db.unit_offering \ job.before.unit_offering :
                   o.semester = n /\ o.year = year
              /\ \A e \in db.survey_event \ job.before.survey_event :
                   e.month = Month(n) /\ e.year = year

\* C30 (no fabricated identity): the unit_code of a record that
\* extract_info_from_pdf returns occurs in the text of the first page of
\* the document, and so does the unit_code of every unit and unit_offering
\* row an import of the document writes.
C30_NoFabricatedIdentity ==
  (job.pc \in { "compiled", "returned" } /\ job.data # NoData) =>
    LET page0_text == Chars(Documents[job.pdf_path][1])
        Printed(unit_code) == unit_code # "" /\ Contains(page0_text, Chars(unit_code))
    IN /\ Printed(job.data.unit_code)
       /\ job.pc = "returned" =>
            /\ \A u \in db.unit \ job.before.unit : Printed(u.unit_code)
            /\ \A o \in db.unit_offering \ job.before.unit_offering : Printed(o.unit_code)

\* C26 (per-question distributions): when two or more of the six questions
\* appear on the same detail page, the five response counts and the
\* agreement percentage recorded for each of them are those of the
\* question's own block, the text from the question to the next
\* "Base (above)", a row missing from the block counting as zero.
C26_PerQuestionDistributions ==
  (job.pc \in { "extracted", "compiled", "returned" } /\ Len(Documents[job.pdf_path]) >= 5) =>
    LET doc == Documents[job.pdf_path]
        detail_pages == { page_idx \in 5..7 : page_idx <= Len(doc) }
        question_match(page_idx, i) ==
          Search(Chars(doc[page_idx]), Patterns.question_match[i], 1, {"S"})
        OnPage(page_idx) ==
          { i \in 1..Len(Metrics) :
              /\ Contains(Chars(doc[page_idx]), Chars(Metrics[i].text))
              /\ question_match(page_idx, i).ok }
        recorded == { job.raw_data.detailed_results[n] :
                        n \in 1..Len(job.raw_data.detailed_results) }
    IN \A page_idx \in detail_pages :
       \A i \in OnPage(page_idx) :
         ( /\ Cardinality(OnPage(page_idx)) >= 2
           /\ \A later \in detail_pages : later > page_idx => i \notin OnPage(later) ) =>
           \E item \in recorded :
             /\ item.question_text = Metrics[i].text
             /\ item.distributions =
                  Distributions(Group(Chars(doc[page_idx]), question_match(page_idx, i), 1))

\* C28 (comment fallback split preserves text): when the comments section
\* has fewer than three blank-line paragraphs and is split on the opening
\* words, each recorded comment is text of the section as it is printed,
\* opening word, separator and remainder, with its newlines replaced by
\* spaces; it is not empty and does not contain 'Comments'.
C28_FallbackSplitPreservesText ==
  (job.pc \in { "extracted", "compiled", "returned" } /\ Len(Documents[job.pdf_path]) >= 8) =>
    LET doc == Documents[job.pdf_path]
        found == { page_idx \in 8..10 :
                     /\ page_idx <= Len(doc)
                     /\ Search(Chars(doc[page_idx]), Patterns.comments_match, 1, {"S", "I"}).ok }
        first_page == Chars(doc[MinOf(found)])
        comments_text ==
          Strip(Group(first_page, Search(first_page, Patterns.comments_match, 1, {"S", "I"}), 1))
        by_blank_line ==
          Pieces(comments_text, Matches(comments_text, Patterns.blank_line, 1, {}))
        printed ==
          [ i \in 1..Len(comments_text) |->
              IF comments_text[i] = "\n" THEN " " ELSE comments_text[i] ]
    IN (found # {} /\ Len(by_blank_line) < 3) =>
         \A n \in 1..Len(job.raw_data.comments) :
           /\ job.raw_data.comments[n] # <<>>
           /\ ~ Contains(job.raw_data.comments[n], Chars("Comments"))
           /\ Contains(printed, job.raw_data.comments[n])

C23_ResourceRelease ==
  /\ job.pc \in { "extracted", "compiled", "returned" } => job.open_documents = 0
  /\ job.pc = "returned" => job.open_connections = 0

\* C24 (generated response distribution): for every sentiment category the
\* dict generate_response_distribution returns has six counts none of which
\* is negative and whose sum is total_responses, total_responses > 0, and
\* 0 <= percent_agree <= 100 with percent_agree the share of strongly_agree
\* and agree in total_responses, in percent to two decimals.
C24_ResponseDistribution ==
  (distributionCall.pc = "returned") =>
    LET d == distributionCall.distribution
        agreeing == d.strongly_agree + d.agree
    IN /\ \A i \in 1..Len(ResponseOptions) : d[ResponseOptions[i]] >= 0
       /\ SumOf(d) = d.total_responses
       /\ d.total_responses > 0
       /\ d.total_responses = distributionCall.total_responses
       /\ 0 <= d.percent_agree /\ d.percent_agree <= 10000
       \* |percent_agree - agreeing / total_responses * 100| <= 0.005
       /\ 2 * d.percent_agree * d.total_responses <= 2 * agreeing * 10000 + d.total_responses
       /\ 2 * d.percent_agree * d.total_responses >= 2 * agreeing * 10000 - d.total_responses

\* a call whose rounded counts did not add up to total_responses, so that
\* the largest count was adjusted
C24_Witness ==
  /\ distributionCall.pc = "returned"
  /\ SumOf(distributionCall.rounded) # distributionCall.total_responses
  /\ distributionCall.distribution.strongly_agree + distributionCall.distribution.agree > 0

\* C22 (generator upsert contracts): after generate_surveys has run, once
\* or again for the same year range on the same database, there is one
\* survey_event per year and semester and its month is the canonical one (5
\* for semester 1, 10 for semester 2), one unit_survey per offering and
\* event, one unit_survey_result per survey and question, and one benchmark
\* per survey, question and group type.
C22_GeneratorUpserts ==
  (generator.runs >= 1) =>
    /\ \A e \in db.survey_event :
         /\ e.month = Month(e.description[2])
         /\ \A f \in db.survey_event :
              (f.year = e.year /\ f.description[2] = e.description[2]) => f = e
    /\ \A s, t \in db.unit_survey :
         (s.unit_offering_id = t.unit_offering_id /\ s.event_id = t.event_id) => s = t
    /\ \A r, p \in db.unit_survey_result :
         (r.survey_id = p.survey_id /\ r.question_id = p.question_id) => r = p
    /\ \A b, c \in db.benchmark :
         ( /\ b.survey_id = c.survey_id /\ b.question_id = c.question_id
           /\ b.group_type = c.group_type ) => b = c

\* C4 (batch completeness): process_folder ends by returning a summary whose
\* details hold one entry per PDF file of the folder and in which
\* successful + failed = total, also when extraction, the JSON dump, opening
\* the database or persistence fails for a file: no exception leaves
\* process_folder.
C4_BatchCompleteness ==
  /\ pc # "raised"
  /\ pc = "returned" =>
       /\ Len(results.details) = Len(pdf_files)
       /\ results.total = Len(pdf_files)
       /\ results.successful + results.failed = results.total

====
